---------------------------- MODULE Spec2Model ----------------------------
(***************************************************************************)
(* Network quality assessment and continuous monitoring of                 *)
(* ngxsmk-gamenet-optimizer: the MultiInternet connection selector and     *)
(* monitor (modules/multi_internet.py), the NetworkAnalyzer continuous     *)
(* analysis (modules/network_analyzer.py), the SystemMonitor history       *)
(* (modules/system_monitor.py) and the AdvancedOptimizer history           *)
(* (modules/advanced_optimizer.py).                                        *)
(*                                                                         *)
(* Each run follows the calling thread on one monitor object; the objects  *)
(* share no state.                                                         *)
(*                                                                         *)
(* Number representation.  Latencies are milliseconds; the latency samples *)
(* drawn below are congruent modulo 6, so every mean of one, two or three  *)
(* samples is a whole number and \div is exact on them.  MultiInternet's   *)
(* packet_loss is kept as a numerator over NumTestServers (100 percent is  *)
(* 100 * NumTestServers), which is exact for (3 - k) / 3 * 100.            *)
(***************************************************************************)
EXTENDS Integers, Sequences, FiniteSets, TLC

\* ------------------------------------------------------------------ bounds
\* Worker-thread slots of one monitor instance (threads alive at once).
MaxThreads == 2
\* Worker-thread slots of one history monitor (SystemMonitor, AdvancedOptimizer).
MaxSamplers == 1
\* Samples one history monitor appends in a run (its capacity and two more).
MaxSamplesSM == 1002
MaxSamplesAO == 102

\* ------------------------------------------------------- program constants
\* len(test_servers) in MultiInternet.test_connection_quality.
NumTestServers == 3
\* `if len(self.performance_data) > 1000` in SystemMonitor._monitoring_loop.
PerformanceDataCapacity == 1000
\* `if len(self.performance_history) > 100` in AdvancedOptimizer._monitoring_loop.
PerformanceHistoryCapacity == 100

\* psutil.net_if_addrs() keys, in the order the platform lists them.
PsutilNames == <<"lo", "Ethernet", "Wi-Fi">>
Interfaces == {"Ethernet", "Wi-Fi"}
\* Interface names n with 'Ethernet' in n (the netsh branch's type test).
NamesWithEthernet == {"Ethernet"}
\* Names whose lower case holds 'wifi' or 'wireless'.
NamesLowerWifi == {}
\* Names whose lower case holds 'ethernet' or 'eth'.
NamesLowerEth == {"Ethernet"}

None == "None"

VARIABLES
    monitor,             \* the monitor object whose methods the calling thread calls
    PING3_AVAILABLE,     \* network_analyzer.PING3_AVAILABLE: `import ping3` succeeded
    starters,            \* threads beside the calling thread that call a start method
    config,              \* ConfigManager.config
    config_file,         \* what the file ConfigManager.config_file holds
    lock,                \* ConfigManager.lock: None, or the thread that holds it
    caller,              \* the thread that calls the public methods
    system,              \* MultiInternet.system: platform.system()
    is_monitoring,       \* MultiInternet.is_monitoring
    monitor_thread,      \* MultiInternet.monitor_thread: None (0) or a thread slot
    connection_metrics,  \* MultiInternet.connection_metrics, an insertion-ordered dict
    worker,              \* MultiInternet._monitoring_loop threads: slot -> [pc, todo]
    is_analyzing,        \* NetworkAnalyzer.is_analyzing
    analysis_thread,     \* NetworkAnalyzer.analysis_thread
    results,             \* NetworkAnalyzer.results
    na_worker,           \* NetworkAnalyzer._continuous_analysis_loop threads
    sm_is_monitoring,    \* SystemMonitor.is_monitoring
    monitoring_thread,   \* SystemMonitor.monitoring_thread
    performance_data,    \* SystemMonitor.performance_data
    sm_appended,         \* how many samples SystemMonitor has appended so far
    sm_worker,           \* SystemMonitor._monitoring_loop threads
    is_running,          \* AdvancedOptimizer.is_running
    ao_monitoring_thread, \* AdvancedOptimizer.monitoring_thread
    performance_history, \* AdvancedOptimizer.performance_history
    ao_appended,         \* how many samples AdvancedOptimizer has appended so far
    ao_worker            \* AdvancedOptimizer._monitoring_loop threads

\* What the operations of the monitors' calling thread and workers leave
\* alone: what is settled when the process starts, the other threads that
\* call a start method, and the ConfigManager.
cmVars == <<config, config_file, lock>>
process == <<monitor, PING3_AVAILABLE, starters, cmVars>>
miVars == <<system, is_monitoring, monitor_thread, connection_metrics, worker>>
naVars == <<is_analyzing, analysis_thread, results, na_worker>>
smVars == <<sm_is_monitoring, monitoring_thread, performance_data, sm_appended, sm_worker>>
aoVars == <<is_running, ao_monitoring_thread, performance_history, ao_appended, ao_worker>>
vars == <<process, caller, miVars, naVars, smVars, aoVars>>

Threads == 1..MaxThreads
Samplers == 1..MaxSamplers


\* ------------------------------------------------------------ environment
\* What the platform reports when the interfaces are enumerated: the names
\* netsh lists as Enabled and Connected, the names with an IPv4 address in
\* psutil.net_if_addrs(), and psutil.net_if_stats() ("nostat": no entry).
IfStates == {"up", "down", "nostat"}

\* What one test_connection_quality call meets: the interface's entry in
\* net_if_stats() ("error": psutil raises) and the three pings' outcomes,
\* a latency in ms (30 or 150, congruent modulo 6) or 0 for "no sample".
\* The enumerations and the probes drawn by the monitoring loop:
LoopEnvs == [netsh : {{}},
             addrs : {{"lo", "Ethernet", "Wi-Fi"}, {"lo", "Ethernet"}},
             stats : {[i \in Interfaces |-> "up"]}]
LoopProbes == [stat : {"up", "down"}, pings : {<<30, 30, 30>>}]
\* The enumerations and the probes drawn by get_best_connection alone.
SelEnvs == [netsh : SUBSET Interfaces,
            addrs : {{"lo"} \cup x : x \in SUBSET Interfaces},
            stats : [Interfaces -> {"up", "down"}] \cup {[i \in Interfaces |-> "nostat"]}]
\* The narrower draw of the calls that enumerate and probe twice.
FailEnvs == [netsh : {{}, {"Ethernet"}},
             addrs : {{"lo"} \cup x : x \in SUBSET Interfaces},
             stats : [Interfaces -> {"up", "down"}]]
FailProbes == [stat : {"up", "down"},
               pings : {<<30, 30, 30>>, <<150, 150, 150>>, <<0, 0, 0>>}]
SelProbes == [stat : IfStates \cup {"error"},
              pings : {<<30, 30, 30>>, <<150, 150, 150>>, <<30, 0, 30>>, <<0, 0, 0>>}]

\* ------------------------------------------------------- sequence helpers
RECURSIVE SumSeq(_)
SumSeq(s) == IF s = <<>> THEN 0 ELSE Head(s) + SumSeq(Tail(s))

Max2(a, b) == IF a > b THEN a ELSE b
Min2(a, b) == IF a < b THEN a ELSE b

\* ------------------------------------------------ MultiInternet: selection
\* _get_windows_connections: the netsh lines, then every psutil interface
\* with an IPv4 address, all with status 'Connected'.
get_windows_connections(env) ==
    LET listed == SelectSeq(PsutilNames, LAMBDA n : n \in env.netsh)
        fromNetsh == [k \in 1..Len(listed) |->
                        [name |-> listed[k],
                         type |-> IF listed[k] \in NamesWithEthernet
                                  THEN "Ethernet" ELSE "WiFi",
                         status |-> "Connected",
                         interface |-> listed[k]]]
        withIp == SelectSeq(PsutilNames, LAMBDA n : n # "lo" /\ n \in env.addrs)
        fromPsutil == [k \in 1..Len(withIp) |->
                        [name |-> withIp[k],
                         type |-> "Network Interface",
                         status |-> "Connected",
                         interface |-> withIp[k]]]
    IN  fromNetsh \o fromPsutil

\* _get_unix_connections: every psutil interface with an IPv4 address; the
\* status follows net_if_stats() and stays 'Connected' on a KeyError.
get_unix_connections(env) ==
    LET withIp == SelectSeq(PsutilNames, LAMBDA n : n # "lo" /\ n \in env.addrs)
    IN  [k \in 1..Len(withIp) |->
            [name |-> withIp[k],
             type |-> "Network Interface",
             status |-> IF env.stats[withIp[k]] = "down"
                        THEN "Disconnected" ELSE "Connected",
             interface |-> withIp[k]]]

get_available_connections(sys, env) ==
    IF sys = "Windows" THEN get_windows_connections(env)
    ELSE get_unix_connections(env)

\* _estimate_bandwidth: by the interface's name when net_if_stats() has it.
estimate_bandwidth(interface, inStats) ==
    IF inStats
    THEN IF interface \in NamesLowerWifi THEN 50
         ELSE IF interface \in NamesLowerEth THEN 100
         ELSE 25
    ELSE 0

\* _calculate_quality_score without the clamp of its last line.
calculate_quality_score_unclamped(latency, packet_loss, bandwidth) ==
    LET s1 == IF latency > 200 THEN 100 - 40
              ELSE IF latency > 100 THEN 100 - 20
              ELSE IF latency > 50 THEN 100 - 10
              ELSE 100
        s2 == IF packet_loss > 10 * NumTestServers THEN s1 - 30
              ELSE IF packet_loss > 5 * NumTestServers THEN s1 - 15
              ELSE IF packet_loss > 1 * NumTestServers THEN s1 - 5
              ELSE s1
    IN  IF bandwidth > 100 THEN s2 + 10
        ELSE IF bandwidth > 50 THEN s2 + 5
        ELSE s2

\* _calculate_quality_score; packet_loss is a numerator over NumTestServers.
calculate_quality_score(latency, packet_loss, bandwidth) ==
    LET s1 == IF latency > 200 THEN 100 - 40
              ELSE IF latency > 100 THEN 100 - 20
              ELSE IF latency > 50 THEN 100 - 10
              ELSE 100
        s2 == IF packet_loss > 10 * NumTestServers THEN s1 - 30
              ELSE IF packet_loss > 5 * NumTestServers THEN s1 - 15
              ELSE IF packet_loss > 1 * NumTestServers THEN s1 - 5
              ELSE s1
        s3 == IF bandwidth > 100 THEN s2 + 10
              ELSE IF bandwidth > 50 THEN s2 + 5
              ELSE s2
    IN  Max2(0, Min2(100, s3))

\* test_connection_quality without the isup test of lines 116-118.
test_connection_quality_no_isup(interface, probe) ==
    IF probe.stat = "error"
    THEN [latency |-> 999, bandwidth |-> 0,
          packet_loss |-> 100 * NumTestServers, quality_score |-> 0]
    ELSE LET latencies == SelectSeq(probe.pings, LAMBDA x : x > 0)
             avg_latency == IF latencies # <<>>
                            THEN SumSeq(latencies) \div Len(latencies)
                            ELSE 999
             packet_loss == IF latencies # <<>>
                            THEN (NumTestServers - Len(latencies)) * 100
                            ELSE 100 * NumTestServers
             bandwidth == estimate_bandwidth(interface, probe.stat # "nostat")
         IN  [latency |-> avg_latency, bandwidth |-> bandwidth,
              packet_loss |-> packet_loss,
              quality_score |-> calculate_quality_score(avg_latency, packet_loss, bandwidth)]

\* test_connection_quality: the dict it returns.  A down interface gets a
\* dict without 'quality_score' (line 118).
test_connection_quality(interface, probe) ==
    IF probe.stat = "error"
    THEN [latency |-> 999, bandwidth |-> 0,
          packet_loss |-> 100 * NumTestServers, quality_score |-> 0]
    ELSE IF probe.stat = "down"
    THEN [latency |-> 999, bandwidth |-> 0, packet_loss |-> 100 * NumTestServers]
    ELSE LET latencies == SelectSeq(probe.pings, LAMBDA x : x > 0)
             avg_latency == IF latencies # <<>>
                            THEN SumSeq(latencies) \div Len(latencies)
                            ELSE 999
             packet_loss == IF latencies # <<>>
                            THEN (NumTestServers - Len(latencies)) * 100
                            ELSE 100 * NumTestServers
             bandwidth == estimate_bandwidth(interface, probe.stat # "nostat")
         IN  [latency |-> avg_latency, bandwidth |-> bandwidth,
              packet_loss |-> packet_loss,
              quality_score |-> calculate_quality_score(avg_latency, packet_loss, bandwidth)]

HasKey(d, k) == k \in DOMAIN d

\* Python's None where a connection dict is expected.
NoneConn == [none |-> TRUE]
IsNone(v) == ~HasKey(v, "interface")

\* The loop of get_best_connection (lines 220-226) from connection i on.
\* acc holds best_connection, best_score, the exception that ended the loop
\* and, beside the code's variables, the net_if_stats() answer that the
\* best connection's test met.
RECURSIVE best_loop(_, _, _, _)
best_loop(conns, probes, i, acc) ==
    IF i > Len(conns) THEN acc
    ELSE IF conns[i].status # "Connected" THEN best_loop(conns, probes, i + 1, acc)
    ELSE LET quality == test_connection_quality(conns[i].interface, probes[i])
         IN  IF ~HasKey(quality, "quality_score")
             THEN [acc EXCEPT !.exc = "KeyError"]
             ELSE IF quality.quality_score > acc.best_score
             THEN best_loop(conns, probes, i + 1,
                            [best |-> [name |-> conns[i].name,
                                       type |-> conns[i].type,
                                       status |-> conns[i].status,
                                       interface |-> conns[i].interface,
                                       quality |-> quality],
                             best_score |-> quality.quality_score,
                             exc |-> None,
                             tested |-> probes[i].stat])
             ELSE best_loop(conns, probes, i + 1, acc)

\* get_best_connection (lines 211-228) on the enumeration conns, the test
\* of connection i meeting probes[i].
get_best_connection(conns, probes) ==
    best_loop(conns, probes, 1,
              [best |-> NoneConn, best_score |-> 0, exc |-> None, tested |-> None])

\* list.sort(key=quality_score, reverse=True) is stable: x goes behind the
\* entries whose score is at least its own.
RECURSIVE insert_desc(_, _)
insert_desc(s, x) ==
    IF s = <<>> THEN <<x>>
    ELSE IF Head(s).quality_score >= x.quality_score
    THEN <<Head(s)>> \o insert_desc(Tail(s), x)
    ELSE <<x>> \o s

RECURSIVE sort_desc(_)
sort_desc(s) ==
    IF s = <<>> THEN <<>>
    ELSE insert_desc(sort_desc(SubSeq(s, 1, Len(s) - 1)), s[Len(s)])

\* The loop of _get_backup_connections (lines 389-396) from connection i on.
RECURSIVE backup_loop(_, _, _, _)
backup_loop(conns, probes, i, acc) ==
    IF i > Len(conns) THEN acc
    ELSE IF conns[i].status # "Connected" THEN backup_loop(conns, probes, i + 1, acc)
    ELSE LET quality == test_connection_quality(conns[i].interface, probes[i])
         IN  IF ~HasKey(quality, "quality_score")
             THEN [acc EXCEPT !.exc = "KeyError"]
             ELSE IF quality.quality_score > 0
             THEN backup_loop(conns, probes, i + 1,
                              [acc EXCEPT !.list = Append(@,
                                   [interface |-> conns[i].interface,
                                    quality_score |-> quality.quality_score])])
             ELSE backup_loop(conns, probes, i + 1, acc)

\* _get_backup_connections (lines 384-400): the sorted list without its head.
get_backup_connections(conns, probes) ==
    LET r == backup_loop(conns, probes, 1, [list |-> <<>>, exc |-> None])
        sorted == sort_desc(r.list)
    IN  [list |-> IF sorted = <<>> THEN <<>> ELSE Tail(sorted), exc |-> r.exc]

\* ------------------------------------------- MultiInternet: the metrics dict
\* connection_metrics is an insertion-ordered dict: a sequence of
\* [interface, timestamp, quality], one entry per key.  The model keeps no
\* clock: every timestamp is the one opaque value Timestamp, which the code
\* only copies into last_updated.
Timestamp == "time.time()"
DictHas(d, k) == \E i \in 1..Len(d) : d[i].interface = k

\* self.connection_metrics[k] = {'timestamp': time.time(), 'quality': q}
DictSet(d, k, q) ==
    LET e == [interface |-> k, timestamp |-> Timestamp, quality |-> q]
    IN  IF DictHas(d, k)
        THEN [i \in 1..Len(d) |-> IF d[i].interface = k THEN e ELSE d[i]]
        ELSE Append(d, e)

\* ------------------------------------------------------ the calling thread
NoRet == [kind |-> "none"]
Raised(exc) == [kind |-> "raise", exc |-> exc]
Value(v) == [kind |-> "value", value |-> v]
\* Beside a call's result the calling thread keeps what the call met: the
\* enumeration it read with the probes of its tests, and the net_if_stats()
\* answer of the test of the connection it chose.
NoReading == [conns |-> <<>>, probes |-> <<>>]
NoLoc == [tested |-> None, reading |-> NoReading]

Idle == [pc |-> "idle", op |-> None, ret |-> NoRet, loc |-> NoLoc]
Return(op, ret) == [pc |-> "return", op |-> op, ret |-> ret, loc |-> NoLoc]

\* A call returned: the caller is free for its next call.
caller_resume ==
    /\ caller.pc = "return"
    /\ caller' = Idle
    /\ UNCHANGED <<process, miVars, naVars, smVars, aoVars>>

\* --------------------------------------------- MultiInternet: start / stop
\* The slots of w that hold no running thread, and the lowest of them.
FreeSlots(w) == {t \in DOMAIN w : w[t].pc \in {"none", "dead"}}
FirstFree(w) == CHOOSE x \in FreeSlots(w) : \A y \in FreeSlots(w) : x <= y
Alive(w) == {t \in DOMAIN w : w[t].pc \notin {"none", "dead"}}
NewThread == [pc |-> "check", todo |-> <<>>]

\* A start_connection_monitoring without the test of lines 262-263.
start_connection_monitoring_again ==
    /\ monitor = "MultiInternet"
    /\ caller.pc = "idle"
    /\ caller' = Return("start_connection_monitoring", NoRet)
    /\ FreeSlots(worker) # {}
    /\ is_monitoring' = TRUE
    /\ monitor_thread' = FirstFree(worker)
    /\ worker' = [worker EXCEPT ![FirstFree(worker)] = NewThread]
    /\ UNCHANGED <<system, connection_metrics>>
    /\ UNCHANGED <<process, naVars, smVars, aoVars>>

\* start_connection_monitoring (lines 260-271).
start_connection_monitoring ==
    /\ monitor = "MultiInternet"
    /\ caller.pc = "idle"
    /\ caller' = Return("start_connection_monitoring", NoRet)
    /\ IF is_monitoring
       THEN UNCHANGED <<is_monitoring, monitor_thread, worker>>
       ELSE /\ FreeSlots(worker) # {}
            /\ LET t == FirstFree(worker)
               IN  /\ is_monitoring' = TRUE
                   /\ monitor_thread' = t
                   /\ worker' = [worker EXCEPT ![t] = NewThread]
    /\ UNCHANGED <<system, connection_metrics>>
    /\ UNCHANGED <<process, naVars, smVars, aoVars>>

\* stop_connection_monitoring up to the join (lines 273-277).
stop_connection_monitoring ==
    /\ monitor = "MultiInternet"
    /\ caller.pc = "idle"
    /\ is_monitoring' = FALSE
    /\ caller' = IF monitor_thread # 0
                 THEN [Idle EXCEPT !.pc = "join", !.op = "stop_connection_monitoring"]
                 ELSE Return("stop_connection_monitoring", NoRet)
    /\ UNCHANGED <<system, monitor_thread, connection_metrics, worker>>
    /\ UNCHANGED <<process, naVars, smVars, aoVars>>

\* monitor_thread.join(timeout=5) returns: the thread has ended, or the
\* timeout has run out while it is still alive.
join_return ==
    /\ caller.pc = "join"
    /\ caller.op = "stop_connection_monitoring"
    /\ caller' = Return("stop_connection_monitoring", NoRet)
    /\ UNCHANGED <<system, is_monitoring, monitor_thread, connection_metrics, worker>>
    /\ UNCHANGED <<process, naVars, smVars, aoVars>>

\* ------------------------------------------ MultiInternet: _monitoring_loop
\* A loop that does not look at the cleared flag: it sleeps and goes on.
loop_exit_never(t) ==
    /\ worker[t].pc = "check"
    /\ ~is_monitoring
    /\ worker' = [worker EXCEPT ![t].pc = "sleep"]
    /\ UNCHANGED <<system, is_monitoring, monitor_thread, connection_metrics, caller>>
    /\ UNCHANGED <<process, naVars, smVars, aoVars>>

\* `while self.is_monitoring` (line 281) is false: the thread ends.  An
\* ended thread that monitor_thread does not name is gone.
loop_exit(t) ==
    /\ worker[t].pc = "check"
    /\ ~is_monitoring
    /\ worker' = [worker EXCEPT ![t].pc = IF monitor_thread = t THEN "dead" ELSE "none"]
    /\ UNCHANGED <<system, is_monitoring, monitor_thread, connection_metrics, caller>>
    /\ UNCHANGED <<process, naVars, smVars, aoVars>>

\* `while self.is_monitoring` is true and connections =
\* self.get_available_connections() (line 283) is read; the loop of line 285
\* then visits the connections whose status is 'Connected'.
loop_enumerate(t) ==
    /\ worker[t].pc = "check"
    /\ is_monitoring
    /\ \E env \in LoopEnvs :
         LET conns == get_available_connections(system, env)
             connected == SelectSeq(conns, LAMBDA c : c.status = "Connected")
             todo == [k \in 1..Len(connected) |-> connected[k].interface]
         IN  worker' = [worker EXCEPT ![t] =
                          [pc |-> IF todo = <<>> THEN "sleep" ELSE "test", todo |-> todo]]
    /\ UNCHANGED <<system, is_monitoring, monitor_thread, connection_metrics, caller>>
    /\ UNCHANGED <<process, naVars, smVars, aoVars>>

\* One pass of the loop body (lines 287-291): test the interface and store
\* its metrics under the current time.
loop_store(t) ==
    /\ worker[t].pc = "test"
    /\ \E probe \in LoopProbes :
         LET interface == Head(worker[t].todo)
             quality == test_connection_quality(interface, probe)
             rest == Tail(worker[t].todo)
         IN  /\ connection_metrics' = DictSet(connection_metrics, interface, quality)
             /\ worker' = [worker EXCEPT ![t] =
                             [pc |-> IF rest = <<>> THEN "sleep" ELSE "test", todo |-> rest]]
    /\ UNCHANGED <<system, is_monitoring, monitor_thread, caller>>
    /\ UNCHANGED <<process, naVars, smVars, aoVars>>

\* An exception inside the try body (lines 282-293) lands in the handler.
loop_raise(t) ==
    /\ \/ worker[t].pc = "check" /\ is_monitoring
       \/ worker[t].pc = "test"
    /\ worker' = [worker EXCEPT ![t] = [pc |-> "except", todo |-> <<>>]]
    /\ UNCHANGED <<system, is_monitoring, monitor_thread, connection_metrics, caller>>
    /\ UNCHANGED <<process, naVars, smVars, aoVars>>

\* A handler that lets the exception end the thread.
loop_sleep_dies(t) ==
    /\ worker[t].pc \in {"sleep", "except"}
    /\ worker' = [worker EXCEPT ![t] =
                    [pc |-> IF worker[t].pc = "except" THEN "none" ELSE "check",
                     todo |-> <<>>]]
    /\ UNCHANGED <<system, is_monitoring, monitor_thread, connection_metrics, caller>>
    /\ UNCHANGED <<process, naVars, smVars, aoVars>>

\* time.sleep(interval) ends (line 293, or line 295 in the handler).
loop_sleep(t) ==
    /\ worker[t].pc \in {"sleep", "except"}
    /\ worker' = [worker EXCEPT ![t] = [pc |-> "check", todo |-> <<>>]]
    /\ UNCHANGED <<system, is_monitoring, monitor_thread, connection_metrics, caller>>
    /\ UNCHANGED <<process, naVars, smVars, aoVars>>

\* ------------------------------- MultiInternet: get_connection_statistics
\* The body of the loop over connection_metrics.items() (lines 309-322) for
\* one entry; KeyError when the stored quality has no 'quality_score'.
stats_body(loc, e) ==
    IF ~HasKey(e.quality, "quality_score") THEN [loc EXCEPT !.exc = "KeyError"]
    ELSE IF e.quality.quality_score > 0
    THEN [loc EXCEPT
            !.active = @ + 1,
            !.best = IF e.quality.quality_score > loc.best_score THEN e.interface ELSE @,
            !.best_score = IF e.quality.quality_score > loc.best_score
                           THEN e.quality.quality_score ELSE @,
            !.details = Append(@, [interface |-> e.interface,
                                   latency |-> e.quality.latency,
                                   bandwidth |-> e.quality.bandwidth,
                                   packet_loss |-> e.quality.packet_loss,
                                   quality_score |-> e.quality.quality_score,
                                   last_updated |-> e.timestamp])]
    ELSE loc

\* The stats dict of lines 299-304 and best_score of line 306.
stats_locals(d) ==
    [total |-> Len(d), active |-> 0, best |-> None, best_score |-> 0,
     details |-> <<>>, size |-> 0, pos |-> 0, exc |-> None]

stats_result(loc) ==
    IF loc.exc # None THEN Raised(loc.exc)
    ELSE Value([total_connections |-> loc.total,
                active_connections |-> loc.active,
                best_connection |-> loc.best,
                connection_details |-> loc.details])

\* Lines 299-306: len(self.connection_metrics) is read.
stats_begin ==
    /\ monitor = "MultiInternet"
    /\ caller.pc = "idle"
    /\ caller' = [pc |-> "stats_iter", op |-> "get_connection_statistics",
                  ret |-> NoRet, loc |-> stats_locals(connection_metrics)]
    /\ UNCHANGED <<system, is_monitoring, monitor_thread, connection_metrics, worker>>
    /\ UNCHANGED <<process, naVars, smVars, aoVars>>

\* Line 308: the iterator over the dict's items is created; it remembers
\* the dict's size.
stats_iter ==
    /\ caller.pc = "stats_iter"
    /\ caller' = [caller EXCEPT !.pc = "stats_next",
                                !.loc.size = Len(connection_metrics)]
    /\ UNCHANGED <<system, is_monitoring, monitor_thread, connection_metrics, worker>>
    /\ UNCHANGED <<process, naVars, smVars, aoVars>>

\* One step of the iteration: RuntimeError when the dict has changed size,
\* the return of line 324 at the end, the loop body otherwise.
stats_next ==
    /\ caller.pc = "stats_next"
    /\ LET loc == caller.loc
       IN  IF Len(connection_metrics) # loc.size
           THEN caller' = Return(caller.op, Raised("RuntimeError"))
           ELSE IF loc.pos = loc.size
           THEN caller' = Return(caller.op, stats_result(loc))
           ELSE LET after == stats_body(loc, connection_metrics[loc.pos + 1])
                IN  IF after.exc # None
                    THEN caller' = Return(caller.op, stats_result(after))
                    ELSE caller' = [caller EXCEPT !.loc = [after EXCEPT !.pos = @ + 1]]
    /\ UNCHANGED <<system, is_monitoring, monitor_thread, connection_metrics, worker>>
    /\ UNCHANGED <<process, naVars, smVars, aoVars>>

\* get_connection_statistics run on one value d of the dict.
RECURSIVE stats_fold(_, _)
stats_fold(d, loc) ==
    IF loc.exc # None \/ loc.pos = Len(d) THEN loc
    ELSE stats_fold(d, [stats_body(loc, d[loc.pos + 1]) EXCEPT !.pos = @ + 1])

StatsOf(d) == stats_result(stats_fold(d, stats_locals(d)))

\* ------------------------------------- MultiInternet: the one-shot calls
\* The enumerations a call may read with the probes its tests may meet
\* (a connection that is not 'Connected' is not tested).
Readings(envs, probes) ==
    LET untested == CHOOSE p \in probes : TRUE
        ProbesFor(conns) ==
            {pr \in [1..Len(conns) -> probes] :
                \A i \in 1..Len(conns) :
                    conns[i].status # "Connected" => pr[i] = untested}
    IN  UNION {[conns : {get_available_connections(system, env)},
                probes : ProbesFor(get_available_connections(system, env))]
               : env \in envs}

\* get_best_connection (lines 211-228): the KeyError of line 223 leaves the
\* call, there is no handler.
get_best_connection_call(envs, probes) ==
    /\ monitor = "MultiInternet"
    /\ caller.pc = "idle"
    /\ \E rd \in Readings(envs, probes) :
         LET r == get_best_connection(rd.conns, rd.probes)
         IN  caller' = [pc |-> "return", op |-> "get_best_connection",
                        ret |-> IF r.exc # None THEN Raised(r.exc) ELSE Value(r.best),
                        loc |-> [tested |-> r.tested, reading |-> rd]]
    /\ UNCHANGED <<system, is_monitoring, monitor_thread, connection_metrics, worker>>
    /\ UNCHANGED <<process, naVars, smVars, aoVars>>

\* get_failover_configuration (lines 375-382): get_best_connection, then
\* _get_backup_connections, each on its own enumeration and probes.
get_failover_configuration_call(envs, probes) ==
    /\ monitor = "MultiInternet"
    /\ caller.pc = "idle"
    /\ \E rd1 \in Readings(envs, probes), rd2 \in Readings(envs, probes) :
         LET p == get_best_connection(rd1.conns, rd1.probes)
             b == get_backup_connections(rd2.conns, rd2.probes)
         IN  caller' = Return("get_failover_configuration",
                          IF p.exc # None THEN Raised(p.exc)
                          ELSE IF b.exc # None THEN Raised(b.exc)
                          ELSE Value([primary_connection |-> p.best,
                                      backup_connections |-> b.list,
                                      failover_threshold |-> 30,
                                      auto_failover |-> TRUE]))
    /\ UNCHANGED <<system, is_monitoring, monitor_thread, connection_metrics, worker>>
    /\ UNCHANGED <<process, naVars, smVars, aoVars>>

\* test_connection_failover (lines 402-421): an exception becomes a
\* success=False result.
test_connection_failover_call(envs, probes) ==
    /\ monitor = "MultiInternet"
    /\ caller.pc = "idle"
    /\ \E rd1 \in Readings(envs, probes), rd2 \in Readings(envs, probes) :
         LET p == get_best_connection(rd1.conns, rd1.probes)
             b == get_backup_connections(rd2.conns, rd2.probes)
         IN  caller' = [pc |-> "return", op |-> "test_connection_failover",
                        ret |-> IF p.exc # None
                                THEN Value([success |-> FALSE,
                                            message |-> "Failover test failed"])
                                ELSE IF IsNone(p.best)
                                THEN Value([success |-> FALSE,
                                            message |-> "No primary connection available"])
                                ELSE IF b.exc # None
                                THEN Value([success |-> FALSE,
                                            message |-> "Failover test failed"])
                                ELSE Value([success |-> TRUE,
                                            primary_connection |-> p.best.interface,
                                            backup_connections |-> Len(b.list),
                                            failover_ready |-> Len(b.list) > 0]),
                        loc |-> [tested |-> None, reading |-> rd1]]
    /\ UNCHANGED <<system, is_monitoring, monitor_thread, connection_metrics, worker>>
    /\ UNCHANGED <<process, naVars, smVars, aoVars>>

\* _get_backup_connections (lines 384-400) called on its own; the KeyError
\* of line 393 leaves the call.
get_backup_connections_call(envs, probes) ==
    /\ monitor = "MultiInternet"
    /\ caller.pc = "idle"
    /\ \E rd \in Readings(envs, probes) :
         LET b == get_backup_connections(rd.conns, rd.probes)
         IN  caller' = [pc |-> "return", op |-> "_get_backup_connections",
                        ret |-> IF b.exc # None THEN Raised(b.exc)
                                ELSE Value([backup_connections |-> b.list]),
                        loc |-> [tested |-> None, reading |-> rd]]
    /\ UNCHANGED <<system, is_monitoring, monitor_thread, connection_metrics, worker>>
    /\ UNCHANGED <<process, naVars, smVars, aoVars>>

\* The arguments _calculate_quality_score is applied to: latencies and
\* bandwidths on both sides of each threshold and beyond the range of a
\* measurement, packet losses of 0, 1, 2, 5, 6, 10, 11, 100 and 200 % and
\* of -1 % (numerators over NumTestServers).
ScoreLatencies == {-1, 0, 20, 21, 50, 51, 60, 100, 101, 200, 201, 999}
ScoreLosses == {-3, 0, 3, 6, 15, 18, 30, 33, 300, 600}
ScoreBandwidths == {-1, 0, 50, 51, 100, 101, 1000}

\* _calculate_quality_score (lines 183-209) called on its own.
calculate_quality_score_call ==
    /\ monitor = "MultiInternet"
    /\ caller.pc = "idle"
    /\ \E latency \in ScoreLatencies, packet_loss \in ScoreLosses,
          bandwidth \in ScoreBandwidths :
         caller' = [pc |-> "return", op |-> "_calculate_quality_score",
                    ret |-> Value([quality_score |->
                                     calculate_quality_score(latency, packet_loss, bandwidth)]),
                    loc |-> [latency |-> latency, packet_loss |-> packet_loss,
                             bandwidth |-> bandwidth]]
    /\ UNCHANGED <<system, is_monitoring, monitor_thread, connection_metrics, worker>>
    /\ UNCHANGED <<process, naVars, smVars, aoVars>>

\* test_connection_quality (lines 111-163) called on its own, on one
\* interface and what its test meets.
test_connection_quality_call(probes) ==
    /\ monitor = "MultiInternet"
    /\ caller.pc = "idle"
    /\ \E interface \in Interfaces, probe \in probes :
         caller' = Return("test_connection_quality",
                          Value(test_connection_quality(interface, probe)))
    /\ UNCHANGED <<system, is_monitoring, monitor_thread, connection_metrics, worker>>
    /\ UNCHANGED <<process, naVars, smVars, aoVars>>

\* --------------------------------------------------------- NetworkAnalyzer
\* What ping_host('8.8.8.8', 2) hands to the loop: a reply, or no reply.
LoopPings == {[avg |-> 30, packet_loss |-> 0], [avg |-> 0, packet_loss |-> 100]}

\* The empty dict of `self.results = {}`.
EmptyDict == [k \in {} |-> None]

Thread == [pc |-> "check"]
NoThreads(slots) == [t \in slots |-> [pc |-> "none"]]

\* start_continuous_analysis (lines 419-430).
start_continuous_analysis ==
    /\ monitor = "NetworkAnalyzer"
    /\ caller.pc = "idle"
    /\ caller' = Return("start_continuous_analysis", NoRet)
    /\ IF is_analyzing
       THEN UNCHANGED <<is_analyzing, analysis_thread, na_worker>>
       ELSE /\ FreeSlots(na_worker) # {}
            /\ is_analyzing' = TRUE
            /\ analysis_thread' = FirstFree(na_worker)
            /\ na_worker' = [na_worker EXCEPT ![FirstFree(na_worker)] = Thread]
    /\ UNCHANGED <<process, results, miVars, smVars, aoVars>>

\* stop_continuous_analysis up to the join (lines 432-436).
stop_continuous_analysis ==
    /\ monitor = "NetworkAnalyzer"
    /\ caller.pc = "idle"
    /\ is_analyzing' = FALSE
    /\ caller' = IF analysis_thread # 0
                 THEN [Idle EXCEPT !.pc = "join", !.op = "stop_continuous_analysis"]
                 ELSE Return("stop_continuous_analysis", NoRet)
    /\ UNCHANGED <<process, analysis_thread, results, na_worker, miVars, smVars, aoVars>>

\* analysis_thread.join(timeout=5) returns: thread ended, or timeout.
na_join_return ==
    /\ caller.pc = "join"
    /\ caller.op = "stop_continuous_analysis"
    /\ caller' = Return("stop_continuous_analysis", NoRet)
    /\ UNCHANGED <<process, miVars, naVars, smVars, aoVars>>

\* `while self.is_analyzing` (line 440) is false: the thread ends.
na_loop_exit(t) ==
    /\ na_worker[t].pc = "check"
    /\ ~is_analyzing
    /\ na_worker' = [na_worker EXCEPT
                       ![t].pc = IF analysis_thread = t THEN "dead" ELSE "none"]
    /\ UNCHANGED <<process, caller, is_analyzing, analysis_thread, results,
                   miVars, smVars, aoVars>>

\* One iteration (lines 441-448): ping, then results['last_ping'] is set.
na_loop_ping(t) ==
    /\ na_worker[t].pc = "check"
    /\ is_analyzing
    /\ \E ping_result \in LoopPings :
         results' = [k \in DOMAIN results \cup {"last_ping"} |->
                       IF k = "last_ping"
                       THEN [timestamp |-> Timestamp,
                             latency |-> ping_result.avg,
                             packet_loss |-> ping_result.packet_loss]
                       ELSE results[k]]
    /\ na_worker' = [na_worker EXCEPT ![t].pc = "sleep"]
    /\ UNCHANGED <<process, caller, is_analyzing, analysis_thread, miVars, smVars, aoVars>>

\* An exception inside the try body (lines 442-450) lands in the handler.
na_loop_raise(t) ==
    /\ na_worker[t].pc = "check"
    /\ is_analyzing
    /\ na_worker' = [na_worker EXCEPT ![t].pc = "except"]
    /\ UNCHANGED <<process, caller, is_analyzing, analysis_thread, results,
                   miVars, smVars, aoVars>>

\* time.sleep(interval) ends (line 450, or line 452 in the handler).
na_loop_sleep(t) ==
    /\ na_worker[t].pc \in {"sleep", "except"}
    /\ na_worker' = [na_worker EXCEPT ![t].pc = "check"]
    /\ UNCHANGED <<process, caller, is_analyzing, analysis_thread, results,
                   miVars, smVars, aoVars>>

\* ------------------------------------------- start called by other threads
\* Thread r calls the monitor's start method.
start_called(r) ==
    /\ monitor \in {"MultiInternet", "NetworkAnalyzer"}
    /\ starters[r] = "none"
    /\ starters' = [starters EXCEPT ![r] = "call"]
    /\ UNCHANGED <<monitor, PING3_AVAILABLE, cmVars, caller, miVars, naVars, smVars, aoVars>>

\* `if self.is_monitoring: return` (multi_internet.py line 262) and
\* `if self.is_analyzing: return` (network_analyzer.py line 421): the flag
\* is read.
start_test(r) ==
    /\ starters[r] = "call"
    /\ starters' = [starters EXCEPT
                      ![r] = IF (monitor = "MultiInternet" /\ is_monitoring)
                                \/ (monitor = "NetworkAnalyzer" /\ is_analyzing)
                             THEN "returned" ELSE "passed"]
    /\ UNCHANGED <<monitor, PING3_AVAILABLE, cmVars, caller, miVars, naVars, smVars, aoVars>>

\* The rest of the method (multi_internet.py lines 265-271,
\* network_analyzer.py lines 424-430): the flag is set, the thread is
\* created and started.
start_set(r) ==
    /\ starters[r] = "passed"
    /\ starters' = [starters EXCEPT ![r] = "returned"]
    /\ IF monitor = "MultiInternet"
       THEN /\ FreeSlots(worker) # {}
            /\ is_monitoring' = TRUE
            /\ monitor_thread' = FirstFree(worker)
            /\ worker' = [worker EXCEPT ![FirstFree(worker)] = NewThread]
            /\ UNCHANGED <<system, connection_metrics, naVars>>
       ELSE /\ FreeSlots(na_worker) # {}
            /\ is_analyzing' = TRUE
            /\ analysis_thread' = FirstFree(na_worker)
            /\ na_worker' = [na_worker EXCEPT ![FirstFree(na_worker)] = Thread]
            /\ UNCHANGED <<results, miVars>>
    /\ UNCHANGED <<monitor, PING3_AVAILABLE, cmVars, caller, smVars, aoVars>>

\* ----------------------------------------------- NetworkAnalyzer: ping_host
\* The counts ping_host is called with: 2 by the loop (line 443), 3 by
\* get_network_quality_score (line 462), 4 by default (line 53).
PingCounts == {2, 3, 4}

\* Round-trip times in ms, on both sides of the scorers' thresholds; as
\* multiples of 12 the mean of up to four of them is a whole number.
Latencies == {12, 36, 60, 120}

\* What one attempt meets: a round-trip time, no answer, or an exception.
Reply(ms) == [kind |-> "reply", ms |-> ms]
NoReply == [kind |-> "none", ms |-> 0]
Raises == [kind |-> "raise", ms |-> 0]
Attempts(count) == [1..count -> {NoReply, Raises} \cup {Reply(ms) : ms \in Latencies}]

\* The latencies list the attempts leave: one entry per answered attempt.
RECURSIVE latencies_of(_)
latencies_of(attempts) ==
    IF attempts = <<>> THEN <<>>
    ELSE IF Head(attempts).kind = "reply"
    THEN <<Head(attempts).ms>> \o latencies_of(Tail(attempts))
    ELSE latencies_of(Tail(attempts))

\* A float that is the quotient of two whole numbers.
Fraction(n, d) == [num |-> n, den |-> d]
FracGt(f, c) == f.num > c * f.den
FracEq(f, g) == f.num * g.den = g.num * f.den
FracGeq(f, g) == f.num * g.den >= g.num * f.den

\* f"{x:.1f}": x to the nearest tenth, a tie to the even tenth; the result
\* is the number of tenths.
format_1f(x) ==
    LET q == (10 * x.num) \div x.den
        r == (10 * x.num) % x.den
    IN  IF 2 * r < x.den THEN q
        ELSE IF 2 * r > x.den THEN q + 1
        ELSE IF q % 2 = 0 THEN q ELSE q + 1

RECURSIVE sum(_)
sum(seq) == IF seq = <<>> THEN 0 ELSE Head(seq) + sum(Tail(seq))
min(seq) == CHOOSE x \in {seq[i] : i \in 1..Len(seq)} : \A i \in 1..Len(seq) : x <= seq[i]
max(seq) == CHOOSE x \in {seq[i] : i \in 1..Len(seq)} : \A i \in 1..Len(seq) : x >= seq[i]
\* statistics.mean of a list of Latencies.
mean(seq) == sum(seq) \div Len(seq)

\* The dict returned when there is no sample (lines 72, 125, 155, 158).
NoSamples == [min |-> 0, max |-> 0, avg |-> 0, packet_loss |-> Fraction(100, 1)]

\* ((count - len(latencies)) / count) * 100 (lines 79, 152).
packet_loss_of(count, latencies) == Fraction((count - Len(latencies)) * 100, count)

\* _ping_with_ping3 (lines 60-80): an exception of ping3.ping skips the
\* attempt.
ping_with_ping3(count, attempts) ==
    LET latencies == latencies_of(attempts)
    IN  IF latencies = <<>> THEN NoSamples
        ELSE [min |-> min(latencies), max |-> max(latencies), avg |-> mean(latencies),
              packet_loss |-> packet_loss_of(count, latencies)]

\* _ping_alternative (lines 127-158): an attempt is a TCP connect to port 80.
ping_alternative(count, attempts) ==
    LET latencies == latencies_of(attempts)
    IN  IF latencies = <<>> THEN NoSamples
        ELSE [min |-> min(latencies), max |-> max(latencies), avg |-> mean(latencies),
              packet_loss |-> packet_loss_of(count, latencies)]

\* What subprocess.run of the ping command ends in (line 90): an exception
\* (no ping command, the 30 s timeout), or a return code with the times of
\* the output's 'time=' lines; ping exits with 0 when a reply came.
Ran(returncode, times) == [kind |-> "done", returncode |-> returncode, times |-> times]
RunRaises == [kind |-> "raise", returncode |-> 0, times |-> <<>>]
Runs(count) ==
    {RunRaises, Ran(1, <<>>), Ran(0, <<>>)}
        \cup {Ran(0, latencies_of(a)) : a \in [1..count -> {NoReply} \cup {Reply(ms) : ms \in Latencies}]}

\* A handler that lets the exception go on.
ping_with_system_reraise(e) == Raised(e)

\* The handler of lines 123-125.
ping_with_system_except(e) == Value(NoSamples)

\* _ping_with_system (lines 82-125) up to its return or its call of
\* _ping_alternative: [next |-> "return", ret] or [next |-> "_ping_alternative"].
ping_with_system(count, run) ==
    IF run.kind = "raise"
    THEN [next |-> "return", ret |-> ping_with_system_except("Exception")]
    ELSE IF run.returncode = 0 /\ run.times # <<>>
    THEN [next |-> "return",
          ret |-> Value([min |-> min(run.times), max |-> max(run.times),
                         avg |-> mean(run.times), packet_loss |-> Fraction(0, 1)])]
    ELSE [next |-> "_ping_alternative", ret |-> NoRet]

\* ping_host on given answers of the three strategies.
ping_host(count, attempts3, run, attemptsTcp) ==
    IF PING3_AVAILABLE THEN Value(ping_with_ping3(count, attempts3))
    ELSE IF ping_with_system(count, run).next = "return"
    THEN ping_with_system(count, run).ret
    ELSE Value(ping_alternative(count, attemptsTcp))

\* What the calling thread keeps of one strategy of a ping_host call: its
\* name, its latencies list and whether an exception was raised inside it.
Tried(strategy, latencies, raised) ==
    [strategy |-> strategy, latencies |-> latencies, raised |-> raised]
HasRaise(attempts) == \E i \in 1..Len(attempts) : attempts[i].kind = "raise"

\* ping_host (lines 53-58): the strategy is chosen on PING3_AVAILABLE.
ping_host_call ==
    /\ monitor = "NetworkAnalyzer"
    /\ caller.pc = "idle"
    /\ \E count \in PingCounts :
         caller' = [pc |-> IF PING3_AVAILABLE THEN "_ping_with_ping3"
                           ELSE "_ping_with_system",
                    op |-> "ping_host", ret |-> NoRet,
                    loc |-> [count |-> count, tried |-> <<>>]]
    /\ UNCHANGED <<process, miVars, naVars, smVars, aoVars>>

\* _ping_with_ping3 runs, and ping_host returns its result (line 56).
ping_with_ping3_call ==
    /\ caller.pc = "_ping_with_ping3"
    /\ \E attempts \in Attempts(caller.loc.count) :
         caller' = [caller EXCEPT
                      !.pc = "return",
                      !.ret = Value(ping_with_ping3(caller.loc.count, attempts)),
                      !.loc.tried = Append(@, Tried("ping3", latencies_of(attempts),
                                                    HasRaise(attempts)))]
    /\ UNCHANGED <<process, miVars, naVars, smVars, aoVars>>

\* _ping_with_system runs the ping command: it returns, or goes on to
\* _ping_alternative (line 121).
ping_with_system_call ==
    /\ caller.pc = "_ping_with_system"
    /\ \E run \in Runs(caller.loc.count) :
         LET r == ping_with_system(caller.loc.count, run)
         IN  caller' = [caller EXCEPT
                          !.pc = r.next,
                          !.ret = r.ret,
                          !.loc.tried = Append(@, Tried("system", run.times,
                                                        run.kind = "raise"))]
    /\ UNCHANGED <<process, miVars, naVars, smVars, aoVars>>

\* _ping_alternative runs, and its result is the call's result.
ping_alternative_call ==
    /\ caller.pc = "_ping_alternative"
    /\ \E attempts \in Attempts(caller.loc.count) :
         caller' = [caller EXCEPT
                      !.pc = "return",
                      !.ret = Value(ping_alternative(caller.loc.count, attempts)),
                      !.loc.tried = Append(@, Tried("tcp", latencies_of(attempts),
                                                    HasRaise(attempts)))]
    /\ UNCHANGED <<process, miVars, naVars, smVars, aoVars>>

\* ------------------------------- NetworkAnalyzer: get_network_quality_score
\* self.test_servers (lines 36-41).
test_servers == <<"8.8.8.8", "1.1.1.1", "208.67.222.222", "8.8.4.4">>

\* What the three attempts on one server meet, and what the ping command
\* ends in.
ScoreAttempts ==
    {<<Reply(12), Reply(12), Reply(12)>>, <<Reply(36), Reply(36), Reply(36)>>,
     <<Reply(60), Reply(60), Reply(60)>>, <<Reply(120), Reply(120), Reply(120)>>,
     <<Reply(120), NoReply, Reply(120)>>, <<NoReply, Raises, NoReply>>}
ScoreRuns == {RunRaises, Ran(1, <<>>)} \cup {Ran(0, latencies_of(a)) : a \in ScoreAttempts}

\* The results ping_host(server, 3) can hand to the scorer.
ScorePings ==
    {ping_host(3, attempts3, run, attemptsTcp).value :
        attempts3 \in ScoreAttempts, run \in ScoreRuns, attemptsTcp \in ScoreAttempts}

\* statistics.mean of a list of fractions.
RECURSIVE frac_sum(_)
frac_sum(seq) ==
    IF seq = <<>> THEN Fraction(0, 1)
    ELSE LET h == Head(seq)
             t == frac_sum(Tail(seq))
         IN  Fraction(h.num * t.den + t.num * h.den, h.den * t.den)
frac_mean(seq) == Fraction(frac_sum(seq).num, frac_sum(seq).den * Len(seq))

\* A rating whose bands lie 20 points higher.
quality_of_shifted(score) ==
    IF score >= 100 THEN "Excellent"
    ELSE IF score >= 80 THEN "Good"
    ELSE IF score >= 60 THEN "Fair"
    ELSE "Poor"

\* Lines 493-501: the rating of a score.
quality_of(score) ==
    IF score >= 80 THEN "Excellent"
    ELSE IF score >= 60 THEN "Good"
    ELSE IF score >= 40 THEN "Fair"
    ELSE "Poor"

\* A score whose latency penalty is smaller above 100 ms than above 50 ms.
penalised_score_dip(avg_latency, avg_packet_loss) ==
    LET s1 == IF FracGt(avg_latency, 100) THEN 100 - 5
              ELSE IF FracGt(avg_latency, 50) THEN 100 - 15
              ELSE IF FracGt(avg_latency, 20) THEN 100 - 5
              ELSE 100
    IN  IF FracGt(avg_packet_loss, 10) THEN s1 - 40
        ELSE IF FracGt(avg_packet_loss, 5) THEN s1 - 20
        ELSE IF FracGt(avg_packet_loss, 1) THEN s1 - 10
        ELSE s1

\* Lines 473-490: 100 less the penalty of the latency and of the packet loss.
penalised_score(avg_latency, avg_packet_loss) ==
    LET s1 == IF FracGt(avg_latency, 100) THEN 100 - 30
              ELSE IF FracGt(avg_latency, 50) THEN 100 - 15
              ELSE IF FracGt(avg_latency, 20) THEN 100 - 5
              ELSE 100
    IN  IF FracGt(avg_packet_loss, 10) THEN s1 - 40
        ELSE IF FracGt(avg_packet_loss, 5) THEN s1 - 20
        ELSE IF FracGt(avg_packet_loss, 1) THEN s1 - 10
        ELSE s1

\* The try body of get_network_quality_score (lines 457-514) on the results
\* of its ping_host calls, one per test server.
get_network_quality_score(ping_results) ==
    LET reached == SelectSeq(ping_results, LAMBDA r : r.avg > 0)
        latencies == [i \in 1..Len(reached) |-> Fraction(reached[i].avg, 1)]
        packet_losses == [i \in 1..Len(reached) |-> reached[i].packet_loss]
    IN  IF latencies = <<>>
        THEN [score |-> 0, quality |-> "Poor", issues |-> <<"No connectivity">>]
        ELSE LET avg_latency == frac_mean(latencies)
                 avg_packet_loss == frac_mean(packet_losses)
                 score == penalised_score(avg_latency, avg_packet_loss)
             IN  [score |-> Max2(0, score),
                  quality |-> quality_of(score),
                  avg_latency |-> avg_latency,
                  packet_loss |-> avg_packet_loss,
                  issues |-> (IF FracGt(avg_latency, 50) THEN <<"High latency">> ELSE <<>>)
                             \o (IF FracGt(avg_packet_loss, 1) THEN <<"Packet loss">> ELSE <<>>)]

\* The handler of lines 516-517.
get_network_quality_score_except ==
    [score |-> 0, quality |-> "Unknown", issues |-> <<"Analysis failed">>]

\* get_network_quality_score (lines 454-517): the try body runs to its
\* return, or an exception raised inside it lands in the handler.
get_network_quality_score_call ==
    /\ monitor = "NetworkAnalyzer"
    /\ caller.pc = "idle"
    /\ \/ \E ping_results \in [1..Len(test_servers) -> ScorePings] :
            caller' = [Return("get_network_quality_score",
                              Value(get_network_quality_score(ping_results)))
                          EXCEPT !.loc = [ping_results |-> ping_results]]
       \/ caller' = Return("get_network_quality_score",
                           Value(get_network_quality_score_except))
    /\ UNCHANGED <<process, miVars, naVars, smVars, aoVars>>

\* ------------------------------------ the interface enumerators on their own
\* NetworkAnalyzer.get_network_interfaces (lines 235-262): every key of
\* psutil.net_if_addrs() with an IPv4 address; is_up is set when an IPv4
\* address is met.
get_network_interfaces(env) ==
    LET withIp == SelectSeq(PsutilNames, LAMBDA n : n \in env.addrs)
    IN  [k \in 1..Len(withIp) |-> [name |-> withIp[k], is_up |-> TRUE]]

get_network_interfaces_call(envs) ==
    /\ monitor = "NetworkAnalyzer"
    /\ caller.pc = "idle"
    /\ \E env \in envs :
         caller' = [pc |-> "return", op |-> "get_network_interfaces",
                    ret |-> Value(get_network_interfaces(env)),
                    loc |-> [env |-> env]]
    /\ UNCHANGED <<process, miVars, naVars, smVars, aoVars>>

\* MultiInternet.get_available_connections (lines 26-38).
get_available_connections_call(envs) ==
    /\ monitor = "MultiInternet"
    /\ caller.pc = "idle"
    /\ \E env \in envs :
         caller' = [pc |-> "return", op |-> "get_available_connections",
                    ret |-> Value(get_available_connections(system, env)),
                    loc |-> [env |-> env]]
    /\ UNCHANGED <<process, miVars, naVars, smVars, aoVars>>

\* ---------------------------- NetworkAnalyzer: _test_bandwidth_alternative
FracAdd(f, g) == Fraction(f.num * g.den + g.num * f.den, f.den * g.den)
FracSub(f, g) == Fraction(f.num * g.den - g.num * f.den, f.den * g.den)
FracMul(f, g) == Fraction(f.num * g.num, f.den * g.den)
FracMax(f, g) == IF FracGeq(f, g) THEN f ELSE g
FracMin(f, g) == IF FracGeq(f, g) THEN g ELSE f
Whole(n) == Fraction(n, 1)
Tenths(n) == Fraction(n, 10)

\* round(x, 1): the nearest tenth, a tie to the even tenth.
round_1(x) == Tenths(format_1f(x))

\* servers_to_test (line 172).
servers_to_test == <<"8.8.8.8", "1.1.1.1", "208.67.222.222">>

\* The results ping_host(server, 2) can hand to the estimate: both attempts
\* answered in 12, 36, 60, 120 or 600 ms, or none answered.
BandwidthAttempts ==
    {<<Reply(ms), Reply(ms)>> : ms \in {12, 36, 60, 120, 600}} \cup {<<NoReply, NoReply>>}
BandwidthPings ==
    {ping_host(2, a, Ran(IF latencies_of(a) = <<>> THEN 1 ELSE 0, latencies_of(a)), a).value :
        a \in BandwidthAttempts}

\* Lines 203-204: "ensure reasonable bounds".
bounds(estimated_download, estimated_upload) ==
    [download |-> FracMax(Whole(5), FracMin(Whole(200), estimated_download)),
     upload |-> FracMax(Whole(2), FracMin(Whole(100), estimated_upload))]

\* Lines 185-201: the estimate of one average latency.
estimate(avg_latency) ==
    IF ~FracGeq(avg_latency, Whole(20))
    THEN LET d == FracAdd(Whole(100), FracMul(FracSub(Whole(50), avg_latency), Whole(2)))
         IN  bounds(d, FracMul(d, Tenths(9)))
    ELSE IF ~FracGeq(avg_latency, Whole(50))
    THEN LET d == FracAdd(Whole(50), FracMul(FracSub(Whole(50), avg_latency), Tenths(15)))
         IN  bounds(d, FracMul(d, Tenths(8)))
    ELSE IF ~FracGeq(avg_latency, Whole(100))
    THEN LET d == FracAdd(Whole(25), FracMul(FracSub(Whole(100), avg_latency), Tenths(5)))
         IN  bounds(d, FracMul(d, Tenths(7)))
    ELSE LET d == FracMax(Whole(5),
                          FracSub(Whole(25),
                                  FracMul(FracSub(avg_latency, Whole(100)), Tenths(2))))
         IN  bounds(d, FracMul(d, Tenths(6)))

\* _test_bandwidth_alternative (lines 168-215) on the results of its
\* ping_host calls.
test_bandwidth_alternative(ping_results) ==
    LET reached == SelectSeq(ping_results, LAMBDA r : r.avg > 0)
        total_latency == sum([i \in 1..Len(reached) |-> reached[i].avg])
        successful_tests == Len(reached)
    IN  IF successful_tests > 0
        THEN LET avg_latency == Fraction(total_latency, successful_tests)
             IN  [download |-> round_1(estimate(avg_latency).download),
                  upload |-> round_1(estimate(avg_latency).upload),
                  ping |-> round_1(avg_latency)]
        ELSE [download |-> Whole(0), upload |-> Whole(0), ping |-> Whole(0)]

\* The calling thread keeps the results of the call's pings.
test_bandwidth_alternative_call ==
    /\ monitor = "NetworkAnalyzer"
    /\ caller.pc = "idle"
    /\ \E ping_results \in [1..Len(servers_to_test) -> BandwidthPings] :
         caller' = [pc |-> "return", op |-> "_test_bandwidth_alternative",
                    ret |-> Value(test_bandwidth_alternative(ping_results)),
                    loc |-> [ping_results |-> ping_results]]
    /\ UNCHANGED <<process, miVars, naVars, smVars, aoVars>>

\* ------------------------------------ NetworkAnalyzer: test_gaming_servers
\* self.gaming_servers (lines 44-51), in the dict's order.
gaming_servers ==
    <<[game |-> "Valorant", servers |-> <<"104.18.0.0", "104.18.1.0">>],
      [game |-> "CS2", servers |-> <<"162.254.196.0", "162.254.197.0">>],
      [game |-> "Fortnite", servers |-> <<"3.208.0.0", "3.208.1.0">>],
      [game |-> "Apex Legends", servers |-> <<"13.107.42.14", "13.107.42.15">>],
      [game |-> "League of Legends",
       servers |-> <<"104.160.131.1", "104.160.131.2", "104.160.131.3", "104.160.131.6">>],
      [game |-> "LoL",
       servers |-> <<"104.160.131.1", "104.160.131.2", "104.160.131.3", "104.160.131.6">>]>>

\* The results ping_host(server, 3) can hand to test_gaming_servers: every
\* attempt answered in 36 ms, every attempt answered in 60 ms, none answered.
GameAttempts ==
    {<<Reply(36), Reply(36), Reply(36)>>, <<Reply(60), Reply(60), Reply(60)>>,
     <<NoReply, NoReply, NoReply>>}
GamePings ==
    {ping_host(3, a, Ran(IF latencies_of(a) = <<>> THEN 1 ELSE 0, latencies_of(a)), a).value :
        a \in GameAttempts}

\* The avg of every ping result, reached or not.
avgs_of_all(ping_results) == [i \in 1..Len(ping_results) |-> ping_results[i].avg]

\* Lines 269-274: the avg of the ping results with avg > 0.
avgs_of_reached(ping_results) ==
    LET reached == SelectSeq(ping_results, LAMBDA r : r.avg > 0)
    IN  [i \in 1..Len(reached) |-> reached[i].avg]

\* Lines 276-288: the entry of one game.
game_entry(ping_results) ==
    LET game_latencies == avgs_of_reached(ping_results)
    IN  IF game_latencies # <<>>
        THEN [min_latency |-> min(game_latencies),
              max_latency |-> max(game_latencies),
              avg_latency |-> mean(game_latencies)]
        ELSE [min_latency |-> 0, max_latency |-> 0, avg_latency |-> 0]

\* test_gaming_servers is entered (line 266): gaming_results = {}.
test_gaming_servers_call ==
    /\ monitor = "NetworkAnalyzer"
    /\ caller.pc = "idle"
    /\ caller' = [pc |-> "test_gaming_servers", op |-> "test_gaming_servers",
                  ret |-> NoRet,
                  loc |-> [gaming_results |-> <<>>, ping_results |-> <<>>]]
    /\ UNCHANGED <<process, miVars, naVars, smVars, aoVars>>

\* One round of the loop over the games (lines 268-288): the game's servers
\* are pinged and its entry is stored; the calling thread keeps the round's
\* ping results.
test_gaming_servers_game ==
    /\ caller.pc = "test_gaming_servers"
    /\ Len(caller.loc.gaming_results) < Len(gaming_servers)
    /\ LET g == gaming_servers[Len(caller.loc.gaming_results) + 1]
       IN  \E ping_results \in [1..Len(g.servers) -> GamePings] :
              caller' = [caller EXCEPT
                           !.loc.gaming_results =
                               Append(@, [game |-> g.game,
                                          result |-> game_entry(ping_results)]),
                           !.loc.ping_results = ping_results]
    /\ UNCHANGED <<process, miVars, naVars, smVars, aoVars>>

\* The loop is over: gaming_results is returned (line 290).
test_gaming_servers_return ==
    /\ caller.pc = "test_gaming_servers"
    /\ Len(caller.loc.gaming_results) = Len(gaming_servers)
    /\ caller' = Return("test_gaming_servers", Value(caller.loc.gaming_results))
    /\ UNCHANGED <<process, miVars, naVars, smVars, aoVars>>

\* ------------------------------------------------------------ LoLOptimizer
\* The regions of the servers dict of get_lol_server_latency (lines 228-235),
\* in the dict's order.
servers == <<"NA", "EUW", "EUNE", "KR", "BR", "SG">>

\* What the ping of one region ends in: an exception, a return code other
\* than 0, or return code 0 with the times of the 'time=' lines.
LolRuns ==
    {RunRaises, Ran(1, <<>>), Ran(0, <<>>), Ran(0, <<12, 12, 12, 12>>),
     Ran(0, <<30, 31>>), Ran(0, <<1200, 1200, 1200>>)}

\* The 999.0 that stands for 'not reached'.
Unreached == Fraction(999, 1)

\* _parse_ping_latency (lines 266-291): the mean of the parsed times.
parse_ping_latency(times) ==
    IF times # <<>> THEN Fraction(sum(times), Len(times)) ELSE Unreached

\* get_lol_server_latency (lines 225-264): region -> latency.
get_lol_server_latency(runs) ==
    [i \in 1..Len(servers) |->
        [region |-> servers[i],
         latency |-> IF runs[i].kind = "raise" THEN Unreached
                     ELSE IF runs[i].returncode = 0
                     THEN parse_ping_latency(runs[i].times)
                     ELSE Unreached]]

\* min(reachable_servers.items(), key=lambda x: x[1]): the first entry of
\* the least latency.
first_min(items) ==
    items[CHOOSE i \in 1..Len(items) :
            \A j \in 1..Len(items) :
               /\ FracGeq(items[j].latency, items[i].latency)
               /\ j < i => ~FracEq(items[j].latency, items[i].latency)]

\* Line 299: the entries with a latency below 999.
reachable(latencies) ==
    SelectSeq(latencies, LAMBDA e : ~FracGeq(e.latency, Unreached))

\* get_best_lol_server (lines 293-307) on the latencies dict; the string
\* "<region> (<x.x>ms)" is kept as its region and its tenths of a ms.
get_best_lol_server(latencies) ==
    IF latencies = <<>> THEN [message |-> "Unknown"]
    ELSE IF reachable(latencies) = <<>> THEN [message |-> "No servers reachable"]
    ELSE LET best_server == first_min(reachable(latencies))
         IN  [region |-> best_server.region, tenths |-> format_1f(best_server.latency)]

get_lol_server_latency_call ==
    /\ monitor = "LoLOptimizer"
    /\ caller.pc = "idle"
    /\ \E runs \in [1..Len(servers) -> LolRuns] :
         caller' = [pc |-> "return", op |-> "get_lol_server_latency",
                    ret |-> Value(get_lol_server_latency(runs)),
                    loc |-> [runs |-> runs]]
    /\ UNCHANGED <<process, miVars, naVars, smVars, aoVars>>

get_best_lol_server_call ==
    /\ monitor = "LoLOptimizer"
    /\ caller.pc = "idle"
    /\ \E runs \in [1..Len(servers) -> LolRuns] :
         caller' = [pc |-> "return", op |-> "get_best_lol_server",
                    ret |-> Value(get_best_lol_server(get_lol_server_latency(runs))),
                    loc |-> [runs |-> runs]]
    /\ UNCHANGED <<process, miVars, naVars, smVars, aoVars>>

\* ----------------------------------------------------------- ConfigManager
\* The settings the calls name and the values they give them.
SettingKeys == {"fps_boost", "multi_internet"}
SettingValues == {"default", "on", "off"}
\* _get_default_config (lines 65 ff.), which __init__ loads and saves.
DefaultConfig == [k \in SettingKeys |-> "default"]
\* The dicts save_settings is called with: {} and the dicts of one setting.
SettingsDicts ==
    {[k \in {} |-> "default"]}
        \cup {[k \in {key} |-> value] : key \in SettingKeys, value \in SettingValues}

\* dict.update.
update(d, settings) ==
    [k \in DOMAIN d \cup DOMAIN settings |-> IF k \in DOMAIN settings THEN settings[k] ELSE d[k]]

\* set_setting is called (line 56): the thread is at `with self.lock`.
set_setting_call ==
    /\ monitor = "ConfigManager"
    /\ caller.pc = "idle"
    /\ \E key \in SettingKeys, value \in SettingValues :
         caller' = [pc |-> "set_setting: with self.lock", op |-> "set_setting",
                    ret |-> NoRet,
                    loc |-> [key |-> key, value |-> value, settings |-> [k \in {} |-> "default"],
                             outer |-> None]]
    /\ UNCHANGED <<monitor, PING3_AVAILABLE, starters, cmVars, miVars, naVars, smVars, aoVars>>

\* Lines 59-61: the lock is acquired (threading.Lock: only when no thread
\* holds it), the setting is stored, save_settings({}) is called.
set_setting_locked ==
    /\ caller.pc = "set_setting: with self.lock"
    /\ lock = None
    /\ lock' = "caller"
    /\ config' = [config EXCEPT ![caller.loc.key] = caller.loc.value]
    /\ caller' = [caller EXCEPT !.pc = "save_settings: with self.lock",
                                !.loc.outer = "set_setting"]
    /\ UNCHANGED <<monitor, PING3_AVAILABLE, starters, config_file, miVars, naVars, smVars, aoVars>>

\* save_settings is called by the calling thread itself (line 35).
save_settings_call ==
    /\ monitor = "ConfigManager"
    /\ caller.pc = "idle"
    /\ \E settings \in SettingsDicts :
         caller' = [pc |-> "save_settings: with self.lock", op |-> "save_settings",
                    ret |-> NoRet,
                    loc |-> [key |-> None, value |-> None, settings |-> settings,
                             outer |-> None]]
    /\ UNCHANGED <<monitor, PING3_AVAILABLE, starters, cmVars, miVars, naVars, smVars, aoVars>>

\* Lines 38-39: the lock is acquired and the config is updated.
save_settings_locked ==
    /\ caller.pc = "save_settings: with self.lock"
    /\ lock = None
    /\ lock' = "caller"
    /\ config' = update(config, caller.loc.settings)
    /\ caller' = [caller EXCEPT !.pc = "save_settings: open"]
    /\ UNCHANGED <<monitor, PING3_AVAILABLE, starters, config_file, miVars, naVars, smVars, aoVars>>

\* Lines 41-47: the file is written and True is returned, or open / dump
\* raises and False is returned; the with statement releases the lock.  In
\* a call made by set_setting the result is what set_setting returns
\* (line 61), once its own with statement is left.
save_settings_done ==
    /\ caller.pc = "save_settings: open"
    /\ \E written \in BOOLEAN :
         /\ config_file' = IF written THEN config ELSE config_file
         /\ caller' = [caller EXCEPT !.pc = "return", !.ret = Value(written)]
    /\ lock' = None
    /\ UNCHANGED <<monitor, PING3_AVAILABLE, starters, config, miVars, naVars, smVars, aoVars>>

\* get_setting (lines 49-54).
get_setting_call ==
    /\ monitor = "ConfigManager"
    /\ caller.pc = "idle"
    /\ \E key \in SettingKeys :
         caller' = [pc |-> "return", op |-> "get_setting", ret |-> Value(config[key]),
                    loc |-> [key |-> key, value |-> None, settings |-> [k \in {} |-> "default"],
                             outer |-> None]]
    /\ UNCHANGED <<monitor, PING3_AVAILABLE, starters, cmVars, miVars, naVars, smVars, aoVars>>

\* ----------------------------------------------------------- SystemMonitor
\* list.pop(): the list without its last entry.
pop_last(list) == SubSeq(list, 1, Len(list) - 1)

\* list.pop(0): the list without its first entry.
pop0(list) == Tail(list)

\* start_monitoring (lines 35-52); creating and starting the thread is taken
\* to succeed.
start_monitoring ==
    /\ monitor = "SystemMonitor"
    /\ caller.pc = "idle"
    /\ IF sm_is_monitoring
       THEN /\ caller' = Return("start_monitoring", Value([status |-> "already_monitoring"]))
            /\ UNCHANGED <<sm_is_monitoring, monitoring_thread, sm_worker>>
       ELSE /\ FreeSlots(sm_worker) # {}
            /\ sm_is_monitoring' = TRUE
            /\ monitoring_thread' = FirstFree(sm_worker)
            /\ sm_worker' = [sm_worker EXCEPT ![FirstFree(sm_worker)] = Thread]
            /\ caller' = Return("start_monitoring", Value([status |-> "started"]))
    /\ UNCHANGED <<process, performance_data, sm_appended, miVars, naVars, aoVars>>

\* stop_monitoring up to the join (lines 54-58).
stop_monitoring ==
    /\ monitor = "SystemMonitor"
    /\ caller.pc = "idle"
    /\ sm_is_monitoring' = FALSE
    /\ caller' = IF monitoring_thread # 0
                 THEN [Idle EXCEPT !.pc = "join", !.op = "stop_monitoring"]
                 ELSE Return("stop_monitoring", Value([status |-> "stopped"]))
    /\ UNCHANGED <<process, monitoring_thread, performance_data, sm_appended, sm_worker,
                   miVars, naVars, aoVars>>

\* monitoring_thread.join(timeout=2) returns, then line 60.
sm_join_return ==
    /\ caller.pc = "join"
    /\ caller.op = "stop_monitoring"
    /\ caller' = Return("stop_monitoring", Value([status |-> "stopped"]))
    /\ UNCHANGED <<process, miVars, naVars, smVars, aoVars>>

\* `while self.is_monitoring` (line 63) is false: the thread ends.
sm_loop_exit(t) ==
    /\ sm_worker[t].pc = "check"
    /\ ~sm_is_monitoring
    /\ sm_worker' = [sm_worker EXCEPT
                       ![t].pc = IF monitoring_thread = t THEN "dead" ELSE "none"]
    /\ UNCHANGED <<process, caller, sm_is_monitoring, monitoring_thread,
                   performance_data, sm_appended, miVars, naVars, aoVars>>

\* Lines 66-81: the data is collected and the sample appended.  A sample is
\* named by its place in the order of the appends.
sm_loop_append(t) ==
    /\ sm_worker[t].pc = "check"
    /\ sm_is_monitoring
    /\ sm_appended < MaxSamplesSM
    /\ sm_appended' = sm_appended + 1
    /\ performance_data' = Append(performance_data, sm_appended + 1)
    /\ sm_worker' = [sm_worker EXCEPT ![t].pc = "trim"]
    /\ UNCHANGED <<process, caller, sm_is_monitoring, monitoring_thread,
                   miVars, naVars, aoVars>>

\* Lines 84-85: `if len(self.performance_data) > 1000: pop(0)`.
sm_loop_trim(t) ==
    /\ sm_worker[t].pc = "trim"
    /\ performance_data' = IF Len(performance_data) > PerformanceDataCapacity
                           THEN pop0(performance_data)
                           ELSE performance_data
    /\ sm_worker' = [sm_worker EXCEPT ![t].pc = "sleep"]
    /\ UNCHANGED <<process, caller, sm_is_monitoring, monitoring_thread, sm_appended,
                   miVars, naVars, aoVars>>

\* An exception while the data is collected (lines 66-72) lands in the
\* handler of lines 89-91.
sm_loop_raise(t) ==
    /\ sm_worker[t].pc = "check"
    /\ sm_is_monitoring
    /\ sm_worker' = [sm_worker EXCEPT ![t].pc = "except"]
    /\ UNCHANGED <<process, caller, sm_is_monitoring, monitoring_thread,
                   performance_data, sm_appended, miVars, naVars, aoVars>>

\* time.sleep(interval) ends (line 87, or line 91 in the handler).
sm_loop_sleep(t) ==
    /\ sm_worker[t].pc \in {"sleep", "except"}
    /\ sm_worker' = [sm_worker EXCEPT ![t].pc = "check"]
    /\ UNCHANGED <<process, caller, sm_is_monitoring, monitoring_thread,
                   performance_data, sm_appended, miVars, naVars, aoVars>>

\* get_current_status (lines 402-417).
get_current_status ==
    /\ monitor = "SystemMonitor"
    /\ caller.pc = "idle"
    /\ caller' = Return("get_current_status",
                    IF performance_data = <<>>
                    THEN Value([status |-> "no_data"])
                    ELSE Value([status |-> "monitoring",
                                latest_data |-> performance_data[Len(performance_data)],
                                monitoring_duration |-> Len(performance_data)]))
    /\ UNCHANGED <<process, miVars, naVars, smVars, aoVars>>

\* A get_performance_summary that drops the entries it does not count.
get_performance_summary_pruning ==
    /\ monitor = "SystemMonitor"
    /\ caller.pc = "idle"
    /\ performance_data' = <<>>
    /\ caller' = Return("get_performance_summary", Value([status |-> "no_data"]))
    /\ UNCHANGED <<process, sm_is_monitoring, monitoring_thread, sm_appended, sm_worker,
                   miVars, naVars, aoVars>>

\* get_performance_summary (lines 419-446): the entries of the last hour
\* are all the entries, or none of them.
get_performance_summary ==
    /\ monitor = "SystemMonitor"
    /\ caller.pc = "idle"
    /\ \E data_points \in {0, Len(performance_data)} :
         caller' = Return("get_performance_summary",
                      IF data_points = 0
                      THEN Value([status |-> "no_data"])
                      ELSE Value([period_hours |-> 1, data_points |-> data_points]))
    /\ UNCHANGED <<process, miVars, naVars, smVars, aoVars>>

\* ------------------------------------------------------- AdvancedOptimizer
\* start_advanced_optimization up to `self.is_running = True` (lines 88-94).
start_advanced_optimization ==
    /\ monitor = "AdvancedOptimizer"
    /\ caller.pc = "idle"
    /\ IF is_running
       THEN /\ caller' = Return("start_advanced_optimization",
                                Value([status |-> "already_running"]))
            /\ UNCHANGED is_running
       ELSE /\ is_running' = TRUE
            /\ caller' = [Idle EXCEPT !.pc = "optimize", !.op = "start_advanced_optimization"]
    /\ UNCHANGED <<process, ao_monitoring_thread, performance_history, ao_appended, ao_worker,
                   miVars, naVars, smVars>>

\* Lines 95-142: the optimizations run, _start_monitoring (lines 640-646)
\* starts the thread, and the results are returned.
start_advanced_optimization_done ==
    /\ caller.pc = "optimize"
    /\ FreeSlots(ao_worker) # {}
    /\ ao_monitoring_thread' = FirstFree(ao_worker)
    /\ ao_worker' = [ao_worker EXCEPT ![FirstFree(ao_worker)] = Thread]
    /\ caller' = Return("start_advanced_optimization", Value([status |-> "results"]))
    /\ UNCHANGED <<process, is_running, performance_history, ao_appended,
                   miVars, naVars, smVars>>

\* Lines 144-146: an exception before _start_monitoring clears the flag.
start_advanced_optimization_error ==
    /\ caller.pc = "optimize"
    /\ is_running' = FALSE
    /\ caller' = Return("start_advanced_optimization", Value([status |-> "error"]))
    /\ UNCHANGED <<process, ao_monitoring_thread, performance_history, ao_appended, ao_worker,
                   miVars, naVars, smVars>>

\* stop_optimization up to the join (lines 713-717).
stop_optimization ==
    /\ monitor = "AdvancedOptimizer"
    /\ caller.pc = "idle"
    /\ is_running' = FALSE
    /\ caller' = IF ao_monitoring_thread # 0
                 THEN [Idle EXCEPT !.pc = "join", !.op = "stop_optimization"]
                 ELSE Return("stop_optimization", NoRet)
    /\ UNCHANGED <<process, ao_monitoring_thread, performance_history, ao_appended, ao_worker,
                   miVars, naVars, smVars>>

\* monitoring_thread.join(timeout=1) returns.
ao_join_return ==
    /\ caller.pc = "join"
    /\ caller.op = "stop_optimization"
    /\ caller' = Return("stop_optimization", NoRet)
    /\ UNCHANGED <<process, miVars, naVars, smVars, aoVars>>

\* `while self.is_running` (line 650) is false: the thread ends.
ao_loop_exit(t) ==
    /\ ao_worker[t].pc = "check"
    /\ ~is_running
    /\ ao_worker' = [ao_worker EXCEPT
                       ![t].pc = IF ao_monitoring_thread = t THEN "dead" ELSE "none"]
    /\ UNCHANGED <<process, caller, is_running, ao_monitoring_thread,
                   performance_history, ao_appended, miVars, naVars, smVars>>

\* Lines 653-662: the stats are collected and appended.
ao_loop_append(t) ==
    /\ ao_worker[t].pc = "check"
    /\ is_running
    /\ ao_appended < MaxSamplesAO
    /\ ao_appended' = ao_appended + 1
    /\ performance_history' = Append(performance_history, ao_appended + 1)
    /\ ao_worker' = [ao_worker EXCEPT ![t].pc = "trim"]
    /\ UNCHANGED <<process, caller, is_running, ao_monitoring_thread, miVars, naVars, smVars>>

\* Lines 665-666: `if len(self.performance_history) > 100: pop(0)`.
ao_loop_trim(t) ==
    /\ ao_worker[t].pc = "trim"
    /\ performance_history' = IF Len(performance_history) > PerformanceHistoryCapacity
                              THEN pop0(performance_history)
                              ELSE performance_history
    /\ ao_worker' = [ao_worker EXCEPT ![t].pc = "sleep"]
    /\ UNCHANGED <<process, caller, is_running, ao_monitoring_thread, ao_appended,
                   miVars, naVars, smVars>>

\* An exception while the stats are collected lands in the handler (670-671).
ao_loop_raise(t) ==
    /\ ao_worker[t].pc = "check"
    /\ is_running
    /\ ao_worker' = [ao_worker EXCEPT ![t].pc = "except"]
    /\ UNCHANGED <<process, caller, is_running, ao_monitoring_thread,
                   performance_history, ao_appended, miVars, naVars, smVars>>

\* time.sleep(5) ends (line 668, or line 671 in the handler).
ao_loop_sleep(t) ==
    /\ ao_worker[t].pc \in {"sleep", "except"}
    /\ ao_worker' = [ao_worker EXCEPT ![t].pc = "check"]
    /\ UNCHANGED <<process, caller, is_running, ao_monitoring_thread,
                   performance_history, ao_appended, miVars, naVars, smVars>>

\* get_performance_history (lines 719-721) returns the list object itself.
get_performance_history ==
    /\ monitor = "AdvancedOptimizer"
    /\ caller.pc = "idle"
    /\ caller' = Return("get_performance_history",
                        Value([alias |-> "self.performance_history"]))
    /\ UNCHANGED <<process, miVars, naVars, smVars, aoVars>>

\* ------------------------------------------------------------ specification
\* The state after construction, the calling thread driving one of the
\* monitor objects of the set monitors, on a host of the set systems.
InitOf(monitors, systems) ==
    /\ monitor \in monitors
    /\ PING3_AVAILABLE \in (IF monitor = "NetworkAnalyzer" THEN BOOLEAN ELSE {FALSE})
    /\ starters = [r \in Threads |-> "none"]
    /\ config = DefaultConfig
    /\ config_file = DefaultConfig
    /\ lock = None
    /\ caller = Idle
    /\ system \in systems
    /\ is_monitoring = FALSE
    /\ monitor_thread = 0
    /\ connection_metrics = <<>>
    /\ worker = [t \in Threads |-> [pc |-> "none", todo |-> <<>>]]
    /\ is_analyzing = FALSE
    /\ analysis_thread = 0
    /\ results = EmptyDict
    /\ na_worker = NoThreads(Threads)
    /\ sm_is_monitoring = FALSE
    /\ monitoring_thread = 0
    /\ performance_data = <<>>
    /\ sm_appended = 0
    /\ sm_worker = NoThreads(Samplers)
    /\ is_running = FALSE
    /\ ao_monitoring_thread = 0
    /\ performance_history = <<>>
    /\ ao_appended = 0
    /\ ao_worker = NoThreads(Samplers)

\* The monitors are followed on a Windows host, the application's platform.
Init ==
    InitOf({"MultiInternet", "NetworkAnalyzer", "SystemMonitor", "AdvancedOptimizer"},
           {"Windows"})

\* The result of a returned call is taken before any worker moves on:
\* taking it touches the calling thread alone, so it commutes with every
\* step of a worker, and the runs left out differ only in that order.
Taken == caller.pc # "return"

NextMI ==
    \/ start_connection_monitoring
    \/ stop_connection_monitoring
    \/ join_return
    \/ stats_begin
    \/ stats_iter
    \/ stats_next
    \/ get_best_connection_call(LoopEnvs, LoopProbes)
    \/ get_failover_configuration_call(LoopEnvs, LoopProbes)
    \/ test_connection_failover_call(LoopEnvs, LoopProbes)
    \/ \E t \in Threads : Taken /\ loop_exit(t)
    \/ \E t \in Threads : Taken /\ loop_enumerate(t)
    \/ \E t \in Threads : Taken /\ loop_store(t)
    \/ \E t \in Threads : Taken /\ loop_raise(t)
    \/ \E t \in Threads : Taken /\ loop_sleep(t)

NextNA ==
    \/ start_continuous_analysis
    \/ stop_continuous_analysis
    \/ na_join_return
    \/ \E t \in Threads : Taken /\ na_loop_exit(t)
    \/ \E t \in Threads : Taken /\ na_loop_ping(t)
    \/ \E t \in Threads : Taken /\ na_loop_raise(t)
    \/ \E t \in Threads : Taken /\ na_loop_sleep(t)

NextSM ==
    \/ start_monitoring
    \/ stop_monitoring
    \/ sm_join_return
    \/ get_current_status
    \/ get_performance_summary
    \/ \E t \in Samplers : Taken /\ sm_loop_exit(t)
    \/ \E t \in Samplers : Taken /\ sm_loop_append(t)
    \/ \E t \in Samplers : Taken /\ sm_loop_trim(t)
    \/ \E t \in Samplers : Taken /\ sm_loop_raise(t)
    \/ \E t \in Samplers : Taken /\ sm_loop_sleep(t)

NextAO ==
    \/ start_advanced_optimization
    \/ start_advanced_optimization_done
    \/ start_advanced_optimization_error
    \/ stop_optimization
    \/ ao_join_return
    \/ get_performance_history
    \/ \E t \in Samplers : Taken /\ ao_loop_exit(t)
    \/ \E t \in Samplers : Taken /\ ao_loop_append(t)
    \/ \E t \in Samplers : Taken /\ ao_loop_trim(t)
    \/ \E t \in Samplers : Taken /\ ao_loop_raise(t)
    \/ \E t \in Samplers : Taken /\ ao_loop_sleep(t)

Next == caller_resume \/ NextMI \/ NextNA \/ NextSM \/ NextAO

Spec == Init /\ [][Next]_vars

\* The one-shot selection calls alone, on the wider enumerations and probes
\* and on both platforms.
InitSel == InitOf({"MultiInternet"}, {"Windows", "Linux"})

NextSel ==
    \/ get_best_connection_call(SelEnvs, SelProbes)
    \/ get_failover_configuration_call(FailEnvs, FailProbes)
    \/ test_connection_failover_call(FailEnvs, FailProbes)
    \/ get_backup_connections_call(FailEnvs, FailProbes)
    \/ caller_resume

SpecSel == InitSel /\ [][NextSel]_vars

\* The probes and the score of a NetworkAnalyzer, with and without the
\* ping3 library.
InitPing == InitOf({"NetworkAnalyzer"}, {"Windows", "Linux"})

NextPing ==
    \/ ping_host_call
    \/ ping_with_ping3_call
    \/ ping_with_system_call
    \/ ping_alternative_call
    \/ caller_resume

SpecPing == InitPing /\ [][NextPing]_vars

\* The scorers of MultiInternet and NetworkAnalyzer, each called on its own.
InitScore == InitOf({"MultiInternet", "NetworkAnalyzer"}, {"Windows", "Linux"})

NextScore ==
    \/ calculate_quality_score_call
    \/ test_connection_quality_call(SelProbes)
    \/ get_network_quality_score_call
    \/ caller_resume

SpecScore == InitScore /\ [][NextScore]_vars

\* The server choice of a LoLOptimizer.
InitLol == InitOf({"LoLOptimizer"}, {"Windows", "Linux"})

NextLol ==
    \/ get_lol_server_latency_call
    \/ get_best_lol_server_call
    \/ caller_resume

SpecLol == InitLol /\ [][NextLol]_vars

\* The latency test of the gaming servers by a NetworkAnalyzer.
InitGaming == InitOf({"NetworkAnalyzer"}, {"Windows"})

NextGaming ==
    \/ test_gaming_servers_call
    \/ test_gaming_servers_game
    \/ test_gaming_servers_return
    \/ caller_resume

SpecGaming == InitGaming /\ [][NextGaming]_vars

\* The bandwidth estimate of a NetworkAnalyzer.
InitBandwidth == InitOf({"NetworkAnalyzer"}, {"Windows", "Linux"})

NextBandwidth == test_bandwidth_alternative_call \/ caller_resume

SpecBandwidth == InitBandwidth /\ [][NextBandwidth]_vars

\* The interface enumerators of NetworkAnalyzer and MultiInternet.
InitInterfaces == InitOf({"MultiInternet", "NetworkAnalyzer"}, {"Windows", "Linux"})

NextInterfaces ==
    \/ get_network_interfaces_call(SelEnvs)
    \/ get_available_connections_call(SelEnvs)
    \/ caller_resume

SpecInterfaces == InitInterfaces /\ [][NextInterfaces]_vars

\* Threads that call start on a stopped MultiInternet or NetworkAnalyzer at
\* the same time, and the workers they start.
InitRace == InitOf({"MultiInternet", "NetworkAnalyzer"}, {"Windows"})

NextRace ==
    \/ \E r \in Threads : start_called(r)
    \/ \E r \in Threads : start_test(r)
    \/ \E r \in Threads : start_set(r)
    \/ \E t \in Threads : loop_enumerate(t)
    \/ \E t \in Threads : loop_store(t)
    \/ \E t \in Threads : loop_raise(t)
    \/ \E t \in Threads : loop_sleep(t)
    \/ \E t \in Threads : na_loop_ping(t)
    \/ \E t \in Threads : na_loop_raise(t)
    \/ \E t \in Threads : na_loop_sleep(t)

SpecRace == InitRace /\ [][NextRace]_vars

\* The calls of a ConfigManager by one thread; a thread that can take a
\* step takes it in the end.
InitConfig == InitOf({"ConfigManager"}, {"Windows"})

NextConfig ==
    \/ set_setting_call
    \/ set_setting_locked
    \/ save_settings_call
    \/ save_settings_locked
    \/ save_settings_done
    \/ get_setting_call
    \/ caller_resume

FairConfig ==
    /\ InitConfig
    /\ [][NextConfig]_vars
    /\ WF_vars(set_setting_locked)
    /\ WF_vars(save_settings_locked)
    /\ WF_vars(save_settings_done)

\* The two monitors that keep a bounded history.
InitHistory == InitOf({"SystemMonitor", "AdvancedOptimizer"}, {"Windows"})

NextHistory == caller_resume \/ NextSM \/ NextAO

SpecHistory == InitHistory /\ [][NextHistory]_vars

\* The stop of a monitor followed to the end of its worker: MultiInternet
\* and NetworkAnalyzer, started and stopped by the calling thread.  Every
\* thread that can run does run in the end (the interpreter switches
\* threads on a timer), and a join with a timeout returns.
InitStop == InitOf({"MultiInternet", "NetworkAnalyzer"}, {"Windows"})

NextStop ==
    \/ caller_resume
    \/ start_connection_monitoring
    \/ stop_connection_monitoring
    \/ join_return
    \/ \E t \in Threads : loop_exit(t)
    \/ \E t \in Threads : loop_enumerate(t)
    \/ \E t \in Threads : loop_store(t)
    \/ \E t \in Threads : loop_raise(t)
    \/ \E t \in Threads : loop_sleep(t)
    \/ start_continuous_analysis
    \/ stop_continuous_analysis
    \/ na_join_return
    \/ \E t \in Threads : na_loop_exit(t)
    \/ \E t \in Threads : na_loop_ping(t)
    \/ \E t \in Threads : na_loop_raise(t)
    \/ \E t \in Threads : na_loop_sleep(t)

FairSpec ==
    /\ InitStop
    /\ [][NextStop]_vars
    /\ WF_vars(join_return)
    /\ WF_vars(na_join_return)
    /\ \A t \in Threads :
         /\ WF_vars(loop_exit(t) \/ loop_enumerate(t) \/ loop_store(t) \/ loop_sleep(t))
         /\ WF_vars(na_loop_exit(t) \/ na_loop_ping(t) \/ na_loop_sleep(t))

\* ------------------------------------------------------------------ claims
\* C1: at no time are two sampling-loop workers of one monitor alive at
\* once, whatever starts and stops were called (MultiInternet,
\* NetworkAnalyzer, SystemMonitor).
C1_OneWorker ==
    /\ Cardinality(Alive(worker)) <= 1
    /\ Cardinality(Alive(na_worker)) <= 1
    /\ Cardinality(Alive(sm_worker)) <= 1

\* The step in which the calling thread calls op and the call returns.
CallOf(op) == caller.pc = "idle" /\ caller'.pc = "return" /\ caller'.op = op

MetricsEntries ==
    {[interface |-> i, timestamp |-> Timestamp, quality |-> test_connection_quality(i, p)]
        : i \in Interfaces, p \in LoopProbes}
MetricsValues ==
    {d \in UNION {[1..n -> MetricsEntries] : n \in 0..Cardinality(Interfaces)} :
        \A a, b \in 1..Len(d) : a # b => d[a].interface # d[b].interface}

\* C3: what get_connection_statistics returns is what it computes on one
\* single value of connection_metrics, also while the worker runs.
C3_Snapshot ==
    caller.pc = "return" /\ caller.op = "get_connection_statistics"
        => \E d \in MetricsValues : caller.ret = StatsOf(d)

\* C4: no reader sees a history above its capacity: the length
\* get_current_status reports is at most 1000, and the list that
\* get_performance_history hands out has at most 100 entries.
C4_HistoryBounded ==
    /\ caller.pc = "return" /\ caller.op = "get_current_status"
            /\ HasKey(caller.ret.value, "monitoring_duration")
        => caller.ret.value.monitoring_duration <= PerformanceDataCapacity
    /\ caller.pc = "return" /\ caller.op = "get_performance_history"
        => Len(performance_history) <= PerformanceHistoryCapacity

\* The history holds the last Len(history) of the samples appended so far,
\* in the order of their appends.
MostRecent(history, appended) ==
    \A i \in 1..Len(history) : history[i] = appended - Len(history) + i

\* C5: the entry removed on overflow is the oldest: the history always is
\* the most recent samples in the order they were appended
\* (SystemMonitor.performance_data, AdvancedOptimizer.performance_history).
C5_OldestEvicted ==
    /\ MostRecent(performance_data, sm_appended)
    /\ MostRecent(performance_history, ao_appended)

\* An overflow has happened and the history is back at its capacity.
C5_Evicted ==
    /\ sm_appended > PerformanceDataCapacity
    /\ Len(performance_data) = PerformanceDataCapacity

\* C6: when stop returns the flag is cleared; the join of stop returns;
\* once the flag is cleared, unless a start sets it again, every worker of
\* the monitor comes to its end; and a worker ends in no other way than by
\* its own test of the cleared flag (MultiInternet, NetworkAnalyzer; a run
\* drives one of the two, the other keeps its flag cleared and no worker).
C6_StopEnds ==
    /\ [](caller.pc = "return" /\ caller.op = "stop_connection_monitoring"
            => ~is_monitoring)
    /\ [](caller.pc = "return" /\ caller.op = "stop_continuous_analysis"
            => ~is_analyzing)
    /\ (caller.pc = "join") ~> (caller.pc = "return")
    /\ (~is_monitoring /\ ~is_analyzing)
         ~> (is_monitoring \/ is_analyzing
               \/ (Alive(worker) = {} /\ Alive(na_worker) = {}))
    /\ [][\A t \in Threads :
            /\ t \in Alive(worker) /\ worker'[t].pc \in {"none", "dead"}
                 => worker[t].pc = "check" /\ ~is_monitoring
            /\ t \in Alive(na_worker) /\ na_worker'[t].pc \in {"none", "dead"}
                 => na_worker[t].pc = "check" /\ ~is_analyzing]_vars

\* stop has returned and the worker it stopped has ended.
C6_Stopped ==
    /\ caller.pc = "return"
    /\ caller.op = "stop_connection_monitoring"
    /\ monitor_thread # 0
    /\ worker[monitor_thread].pc = "dead"

\* C7: an exception inside an iteration does not end the loop: from the
\* handler the worker goes to the loop's test, with the flag set the test
\* starts an iteration, and a worker ends only with the flag cleared
\* (MultiInternet._monitoring_loop, SystemMonitor._monitoring_loop).
C7_ExceptionKeepsLoop ==
    [][/\ \A t \in Threads :
            /\ worker[t].pc = "except" /\ worker'[t] # worker[t]
                 => worker'[t].pc = "check"
            /\ worker[t].pc = "check" /\ is_monitoring /\ worker'[t] # worker[t]
                 => worker'[t].pc \in {"test", "sleep", "except"}
            /\ t \in Alive(worker) /\ worker'[t].pc \in {"none", "dead"}
                 => ~is_monitoring
       /\ \A t \in Samplers :
            /\ sm_worker[t].pc = "except" /\ sm_worker'[t] # sm_worker[t]
                 => sm_worker'[t].pc = "check"
            /\ sm_worker[t].pc = "check" /\ sm_is_monitoring /\ sm_worker'[t] # sm_worker[t]
                 => sm_worker'[t].pc \in {"trim", "except"}
            /\ t \in Alive(sm_worker) /\ sm_worker'[t].pc \in {"none", "dead"}
                 => ~sm_is_monitoring]_vars

\* A worker is in its handler while the flag is set.
C7_InHandler ==
    is_monitoring /\ \E t \in Threads : worker[t].pc = "except"

\* C8: no step of the calling thread (start, stop, the readers) changes
\* connection_metrics, results or performance_data; each is changed by
\* steps of its monitor's worker loop alone.
C8_OnlyWorkerWrites ==
    [][/\ caller' # caller
            => UNCHANGED <<connection_metrics, results, performance_data>>
       /\ connection_metrics' # connection_metrics
            => \E t \in Threads : worker[t].pc = "test" /\ worker'[t] # worker[t]
       /\ results' # results
            => \E t \in Threads : na_worker[t].pc = "check" /\ na_worker'[t].pc = "sleep"
       /\ performance_data' # performance_data
            => \E t \in Samplers : sm_worker[t].pc \in {"check", "trim"}
                                    /\ sm_worker'[t] # sm_worker[t]]_vars

\* A reader has returned from a history that holds samples.
C8_ReadOfData ==
    /\ caller.pc = "return"
    /\ caller.op = "get_performance_summary"
    /\ performance_data # <<>>

\* C9: get_best_connection, get_failover_configuration and
\* get_connection_statistics return a value, whatever was enumerated and
\* whatever state an interface had when it was tested.
C9_NeverRaises ==
    caller.pc = "return"
        /\ caller.op \in {"get_best_connection", "get_failover_configuration",
                          "get_connection_statistics"}
        => caller.ret.kind = "value"

\* C10: the connection get_best_connection returns has status 'Connected'
\* and its test did not find the interface down (net_if_stats() said up, or
\* had no entry for it, which counts as up).
C10_BestIsUp ==
    caller.pc = "return" /\ caller.op = "get_best_connection"
        /\ caller.ret.kind = "value" /\ ~IsNone(caller.ret.value)
        => /\ caller.ret.value.status = "Connected"
           /\ caller.loc.tested \in {"up", "nostat"}

\* get_best_connection has returned the interface enumerated second.
C10_Returned ==
    /\ caller.pc = "return"
    /\ caller.op = "get_best_connection"
    /\ caller.ret.kind = "value"
    /\ ~IsNone(caller.ret.value)
    /\ caller.ret.value.interface = "Wi-Fi"

\* The connections of a reading that are up: enumerated with status
\* 'Connected' and not down when tested (no net_if_stats() entry counts as up).
UpIndices(rd) ==
    {i \in 1..Len(rd.conns) :
        rd.conns[i].status = "Connected" /\ rd.probes[i].stat \in {"up", "nostat"}}
ScoreAt(rd, i) ==
    test_connection_quality(rd.conns[i].interface, rd.probes[i]).quality_score
\* The first, in enumeration order, of the up connections with the highest score.
FirstBest(rd) ==
    CHOOSE i \in UpIndices(rd) :
        \A j \in UpIndices(rd) :
            ScoreAt(rd, i) > ScoreAt(rd, j) \/ (ScoreAt(rd, i) = ScoreAt(rd, j) /\ i <= j)

\* C11: with an up interface enumerated, get_best_connection returns the
\* first up connection of highest score; it returns None only with no
\* interface up.
C11_BestIsArgmax ==
    caller.pc = "return" /\ caller.op = "get_best_connection"
        => LET rd == caller.loc.reading
           IN  IF UpIndices(rd) = {}
               THEN caller.ret.kind = "value" => IsNone(caller.ret.value)
               ELSE /\ caller.ret.kind = "value"
                    /\ ~IsNone(caller.ret.value)
                    /\ caller.ret.value.name = rd.conns[FirstBest(rd)].name
                    /\ caller.ret.value.type = rd.conns[FirstBest(rd)].type
                    /\ caller.ret.value.interface = rd.conns[FirstBest(rd)].interface

\* The interfaces of a reading that are up.
UpInterfaces(rd) == {rd.conns[i].interface : i \in UpIndices(rd)}
SortedDescending(list) ==
    \A i \in 1..Len(list) - 1 : list[i].quality_score >= list[i + 1].quality_score

\* C12: the list _get_backup_connections returns has one entry less than
\* there are up interfaces (none when no interface is up), sorted by
\* quality score in descending order.
C12_BackupCount ==
    caller.pc = "return" /\ caller.op = "_get_backup_connections"
        /\ caller.ret.kind = "value"
        => LET list == caller.ret.value.backup_connections
               up == Cardinality(UpInterfaces(caller.loc.reading))
           IN  /\ Len(list) = IF up >= 1 THEN up - 1 ELSE 0
               /\ SortedDescending(list)

\* C13: in a configuration get_failover_configuration returns, the
\* interface of primary_connection is the interface of no entry of
\* backup_connections.
C13_PrimaryNotBackup ==
    caller.pc = "return" /\ caller.op = "get_failover_configuration"
        /\ caller.ret.kind = "value"
        /\ ~IsNone(caller.ret.value.primary_connection)
        => \A i \in 1..Len(caller.ret.value.backup_connections) :
              caller.ret.value.backup_connections[i].interface
                 # caller.ret.value.primary_connection.interface

\* C14: test_connection_failover returns success = False with a message
\* when the enumeration it selects the primary from has no up interface, and
\* otherwise success = True with failover_ready true exactly when it counted
\* at least one backup.
C14_FailoverResult ==
    caller.pc = "return" /\ caller.op = "test_connection_failover"
        => LET v == caller.ret.value
           IN  /\ caller.ret.kind = "value"
               /\ IF UpIndices(caller.loc.reading) = {}
                  THEN ~v.success /\ "message" \in DOMAIN v
                  ELSE /\ v.success
                       /\ v.failover_ready <=> v.backup_connections > 0

\* The strategies of a ping_host call in the order they are to be tried.
Chain == IF PING3_AVAILABLE THEN <<"ping3", "system", "tcp">> ELSE <<"system", "tcp">>
TriedNames == [i \in 1..Len(caller.loc.tried) |-> caller.loc.tried[i].strategy]
PingReturned == caller.pc = "return" /\ caller.op = "ping_host"

\* C15: a ping_host call runs its strategies in the order ping3 (when
\* available), ping command, TCP connect; it leaves a strategy for the next
\* exactly when the strategy produced no sample, and so returns a result
\* without samples only after every strategy of the chain produced none.
C15_StrategyChain ==
    PingReturned
        => LET tried == caller.loc.tried
           IN  /\ TriedNames = SubSeq(Chain, 1, Len(tried))
               /\ \A i \in 1..Len(tried) - 1 : tried[i].latencies = <<>>
               /\ tried[Len(tried)].latencies = <<>> => Len(tried) = Len(Chain)

\* C16: a ping_host call returns a value, never an exception; when the
\* strategies it ran produced no sample the value is min = 0, max = 0,
\* avg = 0 and packet_loss = 100.
C16_NoSampleResult ==
    PingReturned
        => /\ caller.ret.kind = "value"
           /\ (\A i \in 1..Len(caller.loc.tried) : caller.loc.tried[i].latencies = <<>>)
                 => caller.ret.value = NoSamples

\* A ping_host call has returned with no sample, an exception having been
\* raised inside the strategy it ran.
C16_FailedProbe ==
    /\ PingReturned
    /\ \A i \in 1..Len(caller.loc.tried) : caller.loc.tried[i].latencies = <<>>
    /\ \E i \in 1..Len(caller.loc.tried) : caller.loc.tried[i].raised

\* C17: the packet_loss of a ping_host call of n = count attempts, k of
\* which left a sample in the strategy the result comes from, is
\* (n - k) / n * 100, with k <= n and 0 <= packet_loss <= 100.
C17_PacketLoss ==
    PingReturned /\ caller.ret.kind = "value"
        => LET n == caller.loc.count
               k == Len(caller.loc.tried[Len(caller.loc.tried)].latencies)
               loss == caller.ret.value.packet_loss
           IN  /\ k <= n
               /\ FracEq(loss, Fraction((n - k) * 100, n))
               /\ loss.num >= 0 /\ ~FracGt(loss, 100)

\* clamp(100 - L - P + B, 0, 100) with L by the average latency (30 above
\* 100 ms, 15 above 50, 5 above 20), P by the packet loss (40 above 10 %,
\* 20 above 5, 10 above 1) and B by the bandwidth (10 above 100 Mbps, 5
\* above 50; 0 for none).
ClampedScore(latency, loss, bandwidth) ==
    LET L == IF FracGt(latency, 100) THEN 30
             ELSE IF FracGt(latency, 50) THEN 15
             ELSE IF FracGt(latency, 20) THEN 5 ELSE 0
        P == IF FracGt(loss, 10) THEN 40
             ELSE IF FracGt(loss, 5) THEN 20
             ELSE IF FracGt(loss, 1) THEN 10 ELSE 0
        B == IF bandwidth > 100 THEN 10 ELSE IF bandwidth > 50 THEN 5 ELSE 0
    IN  Max2(0, Min2(100, 100 - L - P + B))

\* C18: the score of a reachable probe is clamp(100 - L - P + B, 0, 100),
\* in the result of get_network_quality_score (no bandwidth), in the
\* result of _calculate_quality_score and in the quality_score of
\* test_connection_quality.
C18_ScoreFormula ==
    caller.pc = "return" /\ caller.ret.kind = "value"
        => LET v == caller.ret.value
           IN  /\ caller.op = "get_network_quality_score" /\ HasKey(v, "avg_latency")
                    => v.score = ClampedScore(v.avg_latency, v.packet_loss, 0)
               /\ caller.op = "_calculate_quality_score"
                  /\ caller.loc.latency >= 0
                  /\ caller.loc.packet_loss \in 0..(100 * NumTestServers)
                  /\ caller.loc.bandwidth >= 0
                    => v.quality_score =
                          ClampedScore(Fraction(caller.loc.latency, 1),
                                       Fraction(caller.loc.packet_loss, NumTestServers),
                                       caller.loc.bandwidth)
               /\ caller.op = "test_connection_quality" /\ HasKey(v, "quality_score")
                  /\ v.latency # 999
                    => v.quality_score =
                          ClampedScore(Fraction(v.latency, 1),
                                       Fraction(v.packet_loss, NumTestServers),
                                       v.bandwidth)

\* The score of get_network_quality_score alone follows that formula.
AnalyzerScoreFormula ==
    caller.pc = "return" /\ caller.op = "get_network_quality_score"
        /\ HasKey(caller.ret.value, "avg_latency")
        => caller.ret.value.score =
              ClampedScore(caller.ret.value.avg_latency, caller.ret.value.packet_loss, 0)

ScoreReturned ==
    /\ caller.pc = "return" /\ caller.ret.kind = "value"
    /\ caller.op \in {"get_network_quality_score", "_calculate_quality_score",
                      "test_connection_quality"}

\* C19: every score a scorer returns (the score of
\* get_network_quality_score, the result of _calculate_quality_score, the
\* quality_score of test_connection_quality when the dict has one) lies
\* between 0 and 100, whatever the inputs and on the failure paths.
C19_ScoreRange ==
    ScoreReturned
        => LET v == caller.ret.value
           IN  /\ HasKey(v, "score") => v.score \in 0..100
               /\ HasKey(v, "quality_score") => v.quality_score \in 0..100

\* _calculate_quality_score has returned 100 for arguments whose bonus
\* takes the sum above 100.
C19_Clamped ==
    /\ caller.pc = "return" /\ caller.op = "_calculate_quality_score"
    /\ caller.loc.latency \in 0..50 /\ caller.loc.packet_loss = 0
    /\ caller.loc.bandwidth > 100
    /\ caller.ret.value.quality_score = 100

GridLatencies == {Fraction(n, 1) : n \in {12, 20, 21, 36, 50, 51, 60, 100, 101, 120}}
GridLosses == {Fraction(n, 1) : n \in {0, 1, 2, 5, 6, 10, 11, 34, 67, 100}}

\* C21: with the packet loss (and the bandwidth) held fixed no scorer gives
\* a higher score for a higher average latency, and with the latency (and
\* the bandwidth) held fixed none gives a higher score for a higher packet
\* loss: the result of _calculate_quality_score and the score of
\* get_network_quality_score are compared with the scores of all worse
\* arguments.
C21_Monotone ==
    caller.pc = "return" /\ caller.ret.kind = "value"
        => LET v == caller.ret.value
           IN  /\ caller.op = "_calculate_quality_score"
                    => /\ \A l \in ScoreLatencies :
                            l >= caller.loc.latency
                               => calculate_quality_score(l, caller.loc.packet_loss,
                                                          caller.loc.bandwidth)
                                     <= v.quality_score
                       /\ \A p \in ScoreLosses :
                            p >= caller.loc.packet_loss
                               => calculate_quality_score(caller.loc.latency, p,
                                                          caller.loc.bandwidth)
                                     <= v.quality_score
               /\ caller.op = "get_network_quality_score" /\ HasKey(v, "avg_latency")
                    => /\ \A l \in GridLatencies :
                            FracGeq(l, v.avg_latency)
                               => Max2(0, penalised_score(l, v.packet_loss)) <= v.score
                       /\ \A p \in GridLosses :
                            FracGeq(p, v.packet_loss)
                               => Max2(0, penalised_score(v.avg_latency, p)) <= v.score

\* get_network_quality_score has returned the score of an average latency
\* between 50 and 100 ms, a latency above 100 ms being scored lower.
C21_WorseScoresLower ==
    /\ caller.pc = "return" /\ caller.op = "get_network_quality_score"
    /\ HasKey(caller.ret.value, "avg_latency")
    /\ FracGt(caller.ret.value.avg_latency, 50)
    /\ ~FracGt(caller.ret.value.avg_latency, 100)
    /\ penalised_score(Fraction(120, 1), caller.ret.value.packet_loss)
          < caller.ret.value.score

\* C22: when no attempt on any target got an answer, the result of
\* get_network_quality_score is score 0, rating Poor, one issue and a
\* packet loss of 100, and the result of test_connection_quality has the
\* packet loss 100 and the quality_score 0.
C22_Unreachable ==
    caller.pc = "return" /\ caller.ret.kind = "value"
        => LET v == caller.ret.value
           IN  /\ caller.op = "get_network_quality_score"
                  /\ v.issues = <<"No connectivity">>
                    => /\ v.score = 0 /\ v.quality = "Poor"
                       /\ HasKey(v, "packet_loss")
                       /\ FracEq(v.packet_loss, Fraction(100, 1))
               /\ caller.op = "test_connection_quality"
                  /\ v.packet_loss = 100 * NumTestServers
                    => HasKey(v, "quality_score") /\ v.quality_score = 0

\* The regions whose ping came back with at least one time.
Answered(runs) ==
    {i \in 1..Len(servers) :
        runs[i].kind = "done" /\ runs[i].returncode = 0 /\ runs[i].times # <<>>}
MeanOf(runs, i) == Fraction(sum(runs[i].times), Len(runs[i].times))

\* C23: get_best_lol_server returns "No servers reachable" exactly when no
\* region answered, and otherwise "<region> (<avg>ms)" for an answering
\* region of the lowest mean latency, with the mean to one decimal.
C23_BestRegion ==
    caller.pc = "return" /\ caller.op = "get_best_lol_server"
        => LET runs == caller.loc.runs
               v == caller.ret.value
           IN  IF Answered(runs) = {}
               THEN v = [message |-> "No servers reachable"]
               ELSE /\ HasKey(v, "region")
                    /\ \E i \in Answered(runs) :
                         /\ servers[i] = v.region
                         /\ \A j \in Answered(runs) : FracGeq(MeanOf(runs, j), MeanOf(runs, i))
                         /\ v.tenths = format_1f(MeanOf(runs, i))

\* The hosts of a round that answered, and the entry stored by the round.
ReachedHosts(ping_results) ==
    {i \in 1..Len(ping_results) : ~FracEq(ping_results[i].packet_loss, Fraction(100, 1))}
LastEntry == caller.loc.gaming_results[Len(caller.loc.gaming_results)].result
InGameRound == caller.pc = "test_gaming_servers" /\ caller.loc.gaming_results # <<>>

\* C24: the entry test_gaming_servers stores for a game has the least, the
\* greatest and the mean of the avg of the hosts that answered, a host that
\* did not answer taking no part in them.
C24_ReachableOnly ==
    InGameRound
        => LET pr == caller.loc.ping_results
               R == ReachedHosts(pr)
           IN  R # {}
                 => /\ \E i \in R : LastEntry.min_latency = pr[i].avg
                    /\ \E i \in R : LastEntry.max_latency = pr[i].avg
                    /\ \A i \in R : /\ LastEntry.min_latency <= pr[i].avg
                                    /\ LastEntry.max_latency >= pr[i].avg
                    /\ LastEntry.avg_latency * Cardinality(R)
                          = sum([k \in 1..Len(pr) |-> IF k \in R THEN pr[k].avg ELSE 0])

\* A game of four hosts has got its entry, one host not having answered and
\* the others having answered in 36, 36 and 60 ms: the mean is 44 ms.
C24_OneUnreachable ==
    /\ InGameRound
    /\ Len(caller.loc.ping_results) = 4
    /\ Cardinality(ReachedHosts(caller.loc.ping_results)) = 3
    /\ LastEntry.min_latency = 36 /\ LastEntry.max_latency = 60
    /\ LastEntry.avg_latency = 44

\* The mean of the avg of the pings that were answered, and the ratio of
\* its bucket in tenths.
AvgOfPings(pr) ==
    Fraction(sum([i \in 1..Len(pr) |-> pr[i].avg]),
             Cardinality({i \in 1..Len(pr) : pr[i].avg > 0}))
BucketRatio(avg) ==
    IF ~FracGeq(avg, Whole(20)) THEN 9
    ELSE IF ~FracGeq(avg, Whole(50)) THEN 8
    ELSE IF ~FracGeq(avg, Whole(100)) THEN 7 ELSE 6
Estimated ==
    /\ caller.pc = "return" /\ caller.op = "_test_bandwidth_alternative"
    /\ \E i \in 1..Len(caller.loc.ping_results) : caller.loc.ping_results[i].avg > 0

\* C25: an estimate made from an average latency has a download between 5
\* and 200 Mbps and an upload that is the returned download times the ratio
\* of the latency's bucket (to the tenth it is rounded to).
C25_Estimate ==
    Estimated
        => LET v == caller.ret.value
               ratio == BucketRatio(AvgOfPings(caller.loc.ping_results))
           IN  /\ FracGeq(v.download, Whole(5)) /\ FracGeq(Whole(200), v.download)
               /\ v.upload = round_1(FracMul(v.download, Tenths(ratio)))

\* C26: an interface an enumerator returns is not the loopback, has an IPv4
\* address, and is up exactly when the interface statistics do not report
\* it down (up when they have no entry for it).
C26_Enumerated ==
    caller.pc = "return"
    /\ caller.op \in {"get_network_interfaces", "get_available_connections"}
        => LET env == caller.loc.env
               list == caller.ret.value
               IsUp(e) == IF caller.op = "get_network_interfaces" THEN e.is_up
                          ELSE e.status = "Connected"
           IN  \A i \in 1..Len(list) :
                  /\ list[i].name # "lo"
                  /\ list[i].name \in env.addrs
                  /\ IsUp(list[i]) <=> env.stats[list[i].name] # "down"

\* A monitor is stopped: its flag is down and its stop call, if any, is
\* past the join.
StoppedMI == monitor = "MultiInternet" /\ ~is_monitoring /\ caller.pc # "join"
StoppedNA == monitor = "NetworkAnalyzer" /\ ~is_analyzing /\ caller.pc # "join"
StoppedSM == monitor = "SystemMonitor" /\ ~sm_is_monitoring /\ caller.pc # "join"

\* C27: from the return of a stop call to the next start call, the
\* monitor's tracked state (connection_metrics, results, performance_data)
\* is not modified.
C27_QuietAfterStop ==
    [][/\ StoppedMI => connection_metrics' = connection_metrics
       /\ StoppedNA => results' = results
       /\ StoppedSM => performance_data' = performance_data]_vars

\* The threads a monitor's start calls have created.
Created(w) == {t \in DOMAIN w : w[t].pc # "none"}

\* C28: when the threads that called start on the stopped monitor at the
\* same time have all returned, exactly one worker thread has been created.
C28_OneStartWins ==
    (\A r \in Threads : starters[r] = "returned")
        => /\ monitor = "MultiInternet" => Cardinality(Created(worker)) = 1
           /\ monitor = "NetworkAnalyzer" => Cardinality(Created(na_worker)) = 1

\* C29: a call of set_setting ends, returning True or False, with the
\* configuration lock released.
C29_SetSettingReturns ==
    (caller.op = "set_setting" /\ caller.pc # "return")
        ~> (caller.op = "set_setting" /\ caller.pc = "return"
            /\ caller.ret.kind = "value" /\ lock = None)

\* One probe result is strictly worse than another: more packet loss at
\* the same latency, or no reply at all where there were replies.
StrictlyWorse(a, b) ==
    /\ FracGeq(b.packet_loss, a.packet_loss) /\ ~FracEq(b.packet_loss, a.packet_loss)
    /\ b.avg = a.avg \/ b = NoSamples

\* A get_network_quality_score call returned from its try body.
AggregateReturned ==
    /\ caller.pc = "return" /\ caller.op = "get_network_quality_score"
    /\ HasKey(caller.loc, "ping_results")

\* C30: when get_network_quality_score has aggregated its targets' results,
\* the same results with one target made strictly worse never give a higher
\* score.
C30_WorseTargetScoresLower ==
    AggregateReturned
        => \A i \in 1..Len(test_servers), worse \in ScorePings :
              StrictlyWorse(caller.loc.ping_results[i], worse)
                => get_network_quality_score(
                       [caller.loc.ping_results EXCEPT ![i] = worse]).score
                     <= caller.ret.value.score


============================================================================
